---- MODULE Spec2Model ----
(***************************************************************************)
(* Virtual networking and HTTP message layer of bundleVFSModules:          *)
(*   src/src/net.js          Socket, Server (virtual stream socket/server) *)
(*   src/src/memfs-entry.js  http Server, ClientRequest, server registry   *)
(*                                                                         *)
(* JavaScript is single threaded: a call runs to completion, and what it   *)
(* defers with queueMicrotask runs later, in FIFO order.  A call may be    *)
(* made by top-level code or from inside a listener/callback, so any call  *)
(* may happen between two deferred jobs.  The model therefore has one      *)
(* action per call and one action that runs the job at the head of the     *)
(* microtask queue.                                                        *)
(***************************************************************************)
EXTENDS Integers, Sequences, FiniteSets, TLC

VARIABLES
    sock,            \* net.Socket fields, per socket
    sockLog,         \* per socket: the notifications emitted / data pushed, in order
    closeListeners,  \* per socket: servers whose _handleConnection attached a "close" listener
    closedBy,        \* history: the server whose close() destroyed the socket ("none" otherwise)
    srv,             \* per http Server: its net.Server's _listening, _address, and http .listening
    connections,     \* per server: net.Server._connections (a JS Set: insertion ordered)
    registry,        \* serverRegistry: port -> server
    srvEmits,        \* per http Server: how many listening / close / connection notifications it emitted
    regCallbacks,    \* how often onServerListenCallback / onServerCloseCallback were invoked
    micro,           \* the microtask queue (queueMicrotask jobs), FIFO
    calls,           \* number of calls made on sockets/servers so far (bounds the run)
    req,             \* ClientRequest fields and the position of _performRequest
    reqLog,          \* notifications emitted by the ClientRequest and its calls of the
                     \* host (fetch, controller.abort), in order
    reqCalls,        \* number of calls made on the ClientRequest so far (bounds the run)
    res,             \* ServerResponse fields
    resHist,         \* what the ServerResponse did: values passed to the resolver, throws, finish
    resCalls,        \* number of calls made on the ServerResponse so far (bounds the run)
    br,              \* the WebSocket bridge of an upgrade request: its write buffer, what it
                     \* sent to the host connection, what the consumer of its socket observed
    brCalls,         \* number of consumer calls and host messages on the bridge so far
    codec,           \* one application of the frame codec: its inputs and its results
    client,          \* a ws-shim WebSocket: its fields, its pending timers, what it emitted
    clientCalls,     \* number of calls and channel messages on the WebSocket so far
    cluster,         \* the cluster module: workers table, the Worker objects, pending timers
    clusterCalls     \* number of calls made on the cluster and its workers so far

netVars == <<sock, sockLog, closeListeners, closedBy, srv, connections, registry,
            srvEmits, regCallbacks, micro, calls>>
reqVars == <<req, reqLog, reqCalls>>
resVars == <<res, resHist, resCalls>>
brVars == <<br, brCalls>>
shimVars == <<client, clientCalls, cluster, clusterCalls>>

\* what the handlers of the bridge leave alone
bridgeFrame ==
    <<sock, sockLog, closeListeners, closedBy, srv, connections, registry,
      srvEmits, regCallbacks, calls, resVars, codec, shimVars>>
vars == <<sock, sockLog, closeListeners, closedBy, srv, connections, registry,
          srvEmits, regCallbacks, micro, calls,
          req, reqLog, reqCalls, res, resHist, resCalls, br, brCalls, codec,
          client, clientCalls, cluster, clusterCalls>>

(***************************************************************************)
(* Bounds of the model                                                     *)
(***************************************************************************)
\* calls made on one socket in a run of the socket specification
MaxSockCalls == 6
\* calls made on servers and their sockets in a run of the server specification
MaxSrvCalls == 4
\* calls made on one ClientRequest in a run
MaxReqCalls == 5
MaxResCalls == 4
MaxSeed == 1
MaxBrCalls == 2
MaxChunks == 3
MaxFrames == 2
\* number of distinct outcomes of Math.random() the model draws port offsets from
RandSpan == 1

Sockets == {"k1", "k2"}
Servers == {"h1", "h2"}
NoServer == "none"

\* net.js:203  port = 3000 + Math.floor(Math.random() * 1000)
RandomBase == 3000
RandomPorts == {RandomBase + r : r \in 0..(RandSpan - 1)}
\* ports a caller passes explicitly; 3000 can also be drawn at random
ExplicitPorts == {3000, 8080}
Ports == ExplicitPorts \cup RandomPorts

(***************************************************************************)
(* Helpers                                                                 *)
(***************************************************************************)
RECURSIVE Count(_, _)
Count(s, e) ==
    IF s = <<>> THEN 0
    ELSE (IF Head(s) = e THEN 1 ELSE 0) + Count(Tail(s), e)

RECURSIVE Without(_, _)
\* Set.prototype.delete on an insertion-ordered set
Without(s, e) ==
    IF s = <<>> THEN <<>>
    ELSE IF Head(s) = e THEN Without(Tail(s), e)
    ELSE <<Head(s)>> \o Without(Tail(s), e)

Elems(s) == {s[i] : i \in 1..Len(s)}

\* Set.prototype.add on an insertion-ordered set
SetAdd(s, e) == IF e \in Elems(s) THEN s ELSE Append(s, e)

Task(t, i, f) == [type |-> t, id |-> i, flag |-> f]

(***************************************************************************)
(* Initial state: the state after construction                             *)
(***************************************************************************)
SocketInit ==
    [connecting |-> FALSE, connected |-> FALSE, destroyed |-> FALSE, readyState |-> "closed"]

ServerInit ==
    [listening |-> FALSE, address |-> <<>>, httpListening |-> FALSE]

\* header names a caller passes, and the keys the header map stores them under
HeaderNames == {"X-A", "x-a", "x-b"}
HeaderKeys == {"x-a", "x-b"}
HeaderValues == {"v1", "v2"}
NoHeader == "absent"
\* values a caller gives the Upgrade header of a ClientRequest
UpgradeValues == {"websocket", "WebSocket", "h2c"}

\* toLowerCase() on the strings that occur
LowerCase(name) ==
    CASE name = "X-A" -> "x-a"
      [] name = "WebSocket" -> "websocket"
      [] OTHER -> name

RequestInit ==
    [bodyChunks |-> 0, aborted |-> FALSE, timeout |-> FALSE, timeoutId |-> FALSE,
     requestEnded |-> FALSE, timerPending |-> FALSE, signalAborted |-> FALSE,
     pc |-> "idle", upgrade |-> NoHeader, bridged |-> FALSE, ws |-> "none",
     errTimer |-> FALSE, ends |-> 0,
     wsKey |-> [present |-> FALSE, value |-> <<>>], acceptValue |-> <<>>,
     responseAccept |-> <<>>]

\* ServerResponse as Server.handleRequest hands it to the request listener
\* (resolver set); headers is the Map _headers, body the array _body of chunks
ResponseInit ==
    [statusCode |-> 200, statusMessage |-> "OK", headersSent |-> FALSE, finished |-> FALSE,
     headers |-> [h \in HeaderKeys |-> NoHeader], body |-> <<>>]

\* the bridge before _handleWebSocketUpgrade has run: writeBuffer is the
\* closure variable of that name; the other fields record what the bridge did
\*   sent        the messages given to nativeWs.send, in order
\*   hostCloses  how many times nativeWs.close() was called
\*   observed    what the consumer of the mock socket saw, in order: frames
\*               pushed, "end", "close", "error"
\*   destroyed   socket._destroyed
\*   closeTimers how many setTimeout(..., 10) of onclose are pending
\*   plan        the bytes the consumer still has to write
\*   written     the bytes the consumer wrote so far
\*   removed     the bytes taken off writeBuffer so far
\*   frames      the frames parsed off writeBuffer so far
BridgeInit ==
    [writeBuffer |-> <<>>, sent |-> <<>>, hostCloses |-> 0, observed |-> <<>>,
     destroyed |-> FALSE, closeTimers |-> 0, stream |-> <<>>, written |-> <<>>,
     removed |-> <<>>, frames |-> <<>>, received |-> <<>>]

\* no frame built or parsed yet
CodecInit == [built |-> FALSE, raw |-> FALSE]

\* WebSocket.CONNECTING, OPEN, CLOSING, CLOSED
CONNECTING == 0
OPEN == 1
CLOSING == 2
CLOSED == 3

\* the ws-shim WebSocket before new WebSocket(url); afterwards
\*   kind       which branch of _connect the url takes
\*   channel    whether messageChannel (the BroadcastChannel) exists
\*   handler    whether the message handler of _connect is attached to the channel
\*   timers     the pending setTimeout callbacks with their delays, in the order set
\*   posted     the messages posted on the channel, in order
\*   log        the notifications emitted, and the calls of close() and terminate(), in order
ClientInit ==
    [made |-> FALSE, kind |-> "none", channel |-> FALSE, readyState |-> CONNECTING,
     handler |-> FALSE, timers |-> <<>>, posted |-> <<>>, log |-> <<>>]

\* the cluster module as loaded: no worker forked
\*   nextWorkerId  the module variable of that name
\*   workers       the ids that are keys of the workers table
\*   w             the Worker objects made so far, by id
\*   timers        the pending setTimeout(..., 0) callbacks, in the order set
ClusterInit == [nextWorkerId |-> 1, workers |-> {}, w |-> <<>>, timers |-> <<>>]

Init ==
    /\ sock = [k \in Sockets |-> SocketInit]
    /\ sockLog = [k \in Sockets |-> <<>>]
    /\ closeListeners = [k \in Sockets |-> {}]
    /\ closedBy = [k \in Sockets |-> NoServer]
    /\ srv = [s \in Servers |-> ServerInit]
    /\ connections = [s \in Servers |-> <<>>]
    /\ registry = [p \in Ports |-> NoServer]
    /\ srvEmits = [s \in Servers |-> [listening |-> 0, close |-> 0, connection |-> 0]]
    /\ regCallbacks = [listen |-> 0, close |-> 0]
    /\ micro = <<>>
    /\ calls = 0
    /\ req = RequestInit
    /\ reqLog = <<>>
    /\ reqCalls = 0
    /\ res = ResponseInit
    /\ resHist = [resolved |-> <<>>, throws |-> 0, finish |-> 0,
                  sends |-> 0, ends |-> 0, written |-> <<>>]
    /\ resCalls = 0
    /\ br = BridgeInit
    /\ brCalls = 0
    /\ codec = CodecInit
    /\ client = ClientInit
    /\ clientCalls = 0
    /\ cluster = ClusterInit
    /\ clusterCalls = 0

(***************************************************************************)
(* net.Socket                                                              *)
(*                                                                         *)
(* Notifications are recorded in sockLog as they are emitted.  A listener  *)
(* is assumed for every notification (an "error" emitted with no listener  *)
(* would throw out of the emitting call).  Socket.destroy overrides the    *)
(* stream's destroy without calling it, so the underlying Duplex is never  *)
(* marked destroyed and push() keeps delivering: a push is logged "data".  *)
(***************************************************************************)
NetState == [sock |-> sock, sockLog |-> sockLog, micro |-> micro]

\* faulty variant of SocketDestroy: the  if (this._destroyed) return this  guard is missing
SocketDestroyUnguarded(st, k, error) ==
    [sock |-> [st.sock EXCEPT ![k].destroyed = TRUE,
                              ![k].connected = FALSE,
                              ![k].readyState = "closed"],
     sockLog |-> IF error THEN [st.sockLog EXCEPT ![k] = Append(@, "error")]
                 ELSE st.sockLog,
     micro |-> Append(st.micro, Task("sockClose", k, error))]

\* Socket.destroy(error) as a function of the state it reads and writes
SocketDestroy(st, k, error) ==
    IF st.sock[k].destroyed THEN st
    ELSE [sock |-> [st.sock EXCEPT ![k].destroyed = TRUE,
                                   ![k].connected = FALSE,
                                   ![k].readyState = "closed"],
          sockLog |-> IF error THEN [st.sockLog EXCEPT ![k] = Append(@, "error")]
                      ELSE st.sockLog,
          micro |-> Append(st.micro, Task("sockClose", k, error))]

\* faulty variant of Connect: the connection completes inside the call, not in a queued job
ConnectSynchronous(k, hasCb) ==
    /\ sock' = [sock EXCEPT ![k].connecting = FALSE,
                            ![k].connected = TRUE,
                            ![k].readyState = "open"]
    /\ sockLog' = [sockLog EXCEPT ![k] =
                     IF hasCb THEN @ \o <<"connect", "connectCb">> ELSE Append(@, "connect")]
    /\ UNCHANGED <<micro, closeListeners, closedBy, srv, connections, registry,
                   srvEmits, regCallbacks>>

\* socket.connect(port, host, cb): hasCb says whether a callback was passed
Connect(k, hasCb) ==
    /\ sock' = [sock EXCEPT ![k].connecting = TRUE, ![k].readyState = "opening"]
    /\ micro' = Append(micro, Task("connect", k, hasCb))
    /\ UNCHANGED <<sockLog, closeListeners, closedBy, srv, connections, registry,
                   srvEmits, regCallbacks>>

\* socket.destroy(error): hasError says whether an error was passed
Destroy(k, hasError) ==
    LET st == SocketDestroy(NetState, k, hasError) IN
    /\ sock' = st.sock
    /\ sockLog' = st.sockLog
    /\ micro' = st.micro
    /\ UNCHANGED <<closeListeners, closedBy, srv, connections, registry,
                   srvEmits, regCallbacks>>

\* socket._receiveData(data): this.push(buffer)
ReceiveData(k) ==
    /\ sockLog' = [sockLog EXCEPT ![k] = Append(@, "data")]
    /\ UNCHANGED <<sock, micro, closeListeners, closedBy, srv, connections, registry,
                   srvEmits, regCallbacks>>

\* the job queued by connect()
ConnectJob(k, hasCb) ==
    /\ sock' = [sock EXCEPT ![k].connecting = FALSE,
                            ![k].connected = TRUE,
                            ![k].readyState = "open"]
    /\ sockLog' = [sockLog EXCEPT ![k] =
                     IF hasCb THEN @ \o <<"connect", "connectCb">> ELSE Append(@, "connect")]
    /\ UNCHANGED <<closeListeners, closedBy, srv, connections, registry,
                   srvEmits, regCallbacks>>

\* the job queued by destroy(): emit("close"); the listeners attached by
\* _handleConnection remove the socket from their server's connection set
SockCloseJob(k) ==
    /\ sockLog' = [sockLog EXCEPT ![k] = Append(@, "close")]
    /\ connections' = [s \in Servers |->
                         IF s \in closeListeners[k] THEN Without(connections[s], k)
                         ELSE connections[s]]
    /\ UNCHANGED <<sock, closeListeners, closedBy, srv, registry,
                   srvEmits, regCallbacks>>

(***************************************************************************)
(* net.Server, the http Server that wraps one, and the server registry     *)
(***************************************************************************)
\* the port argument of listen(): <<>> when it is not given, <<p>> for the number p
PortArgs == {<<>>} \cup {<<p>> : p \in {0} \cup ExplicitPorts}

\* _registerServer(port, server): serverRegistry.set(port, server)
RegisterServer(reg, port, s) == [reg EXCEPT ![port] = s]

\* faulty variant of UnregisterServer: serverRegistry.clear() instead of delete(port)
UnregisterServerClearsAll(reg, port) == [p \in Ports |-> NoServer]

\* _unregisterServer(port): serverRegistry.delete(port)
UnregisterServer(reg, port) == [reg EXCEPT ![port] = NoServer]

\* the port net.Server.listen binds: the number given, or a random one when it is 0 or unset
BoundPort(portArg, r) ==
    LET port == IF portArg = <<>> THEN 0 ELSE portArg[1] IN
    IF port = 0 THEN RandomBase + r ELSE port

\* whether net.Server.listen(port, host, cb) finds its callback: it looks for one
\* only when the first argument is a number (or an options object)
ListenFindsCallback(portArg) == portArg # <<>>

\* http Server.listen(port) -> this._netServer.listen(port, host, cb), where cb is
\* the wrapper that registers the server; r is the outcome of Math.random()
HttpListen(s, portArg, r) ==
    /\ srv' = [srv EXCEPT ![s].address = <<BoundPort(portArg, r)>>,
                          ![s].listening = TRUE]
    /\ micro' = Append(micro, Task("listening", s, ListenFindsCallback(portArg)))
    /\ UNCHANGED <<sock, sockLog, closeListeners, closedBy, connections, registry,
                   srvEmits, regCallbacks>>

\* the job queued by net.Server.listen: emit("listening"), on which the http
\* Server sets .listening; then cb(), which registers the server under the
\* port its net.Server has at that moment
ListeningJob(s, hasCb) ==
    /\ srv' = [srv EXCEPT ![s].httpListening = TRUE]
    /\ srvEmits' = [srvEmits EXCEPT ![s].listening = @ + 1]
    /\ registry' = IF hasCb /\ srv[s].address # <<>>
                   THEN RegisterServer(registry, srv[s].address[1], s)
                   ELSE registry
    /\ regCallbacks' = IF hasCb /\ srv[s].address # <<>>
                       THEN [regCallbacks EXCEPT !.listen = @ + 1]
                       ELSE regCallbacks
    /\ UNCHANGED <<sock, sockLog, closeListeners, closedBy, connections>>

RECURSIVE DestroyAll(_, _)
\* for (const socket of this._connections) socket.destroy()
DestroyAll(st, conns) ==
    IF conns = <<>> THEN st
    ELSE DestroyAll(SocketDestroy(st, Head(conns), FALSE), Tail(conns))

\* net.Server.close(): what it does to the sockets and the microtask queue
NetClose(st, s) ==
    LET after == DestroyAll(st, connections[s]) IN
    [after EXCEPT !.micro = Append(@, Task("srvClose", s, FALSE))]

\* http Server.close(): unregister the port of the address, then close the net.Server
HttpClose(s) ==
    LET st == NetClose(NetState, s) IN
    /\ registry' = IF srv[s].address # <<>>
                   THEN UnregisterServer(registry, srv[s].address[1])
                   ELSE registry
    /\ srv' = [srv EXCEPT ![s].listening = FALSE]
    /\ sock' = st.sock
    /\ sockLog' = st.sockLog
    /\ micro' = st.micro
    /\ connections' = [connections EXCEPT ![s] = <<>>]
    /\ closedBy' = [k \in Sockets |->
                      IF k \in Elems(connections[s]) /\ ~sock[k].destroyed
                      THEN s ELSE closedBy[k]]
    /\ regCallbacks' = IF srv[s].address # <<>>
                       THEN [regCallbacks EXCEPT !.close = @ + 1]
                       ELSE regCallbacks
    /\ UNCHANGED <<closeListeners, srvEmits>>

\* the job queued by net.Server.close: emit("close"), on which the http Server
\* clears .listening
SrvCloseJob(s) ==
    /\ srv' = [srv EXCEPT ![s].httpListening = FALSE]
    /\ srvEmits' = [srvEmits EXCEPT ![s].close = @ + 1]
    /\ UNCHANGED <<sock, sockLog, closeListeners, closedBy, connections, registry,
                   regCallbacks>>

\* faulty variant of HandleConnection: admits the socket whatever the server's state
HandleConnectionAlwaysAdmits(s, k) ==
    /\ connections' = [connections EXCEPT ![s] = SetAdd(@, k)]
    /\ closeListeners' = [closeListeners EXCEPT ![k] = @ \cup {s}]
    /\ srvEmits' = [srvEmits EXCEPT ![s].connection = @ + 1]
    /\ UNCHANGED <<sock, sockLog, micro, closedBy, srv, registry, regCallbacks>>

\* net.Server._handleConnection(socket)
HandleConnection(s, k) ==
    IF ~srv[s].listening
    THEN Destroy(k, FALSE)
    ELSE /\ connections' = [connections EXCEPT ![s] = SetAdd(@, k)]
         /\ closeListeners' = [closeListeners EXCEPT ![k] = @ \cup {s}]
         /\ srvEmits' = [srvEmits EXCEPT ![s].connection = @ + 1]
         /\ UNCHANGED <<sock, sockLog, micro, closedBy, srv, registry, regCallbacks>>

(***************************************************************************)
(* Running the job at the head of the microtask queue                      *)
(***************************************************************************)
HeadIs(type) == micro # <<>> /\ Head(micro).type = type

RunConnect ==
    /\ HeadIs("connect")
    /\ ConnectJob(Head(micro).id, Head(micro).flag)
    /\ micro' = Tail(micro)
    /\ UNCHANGED calls

RunSockClose ==
    /\ HeadIs("sockClose")
    /\ SockCloseJob(Head(micro).id)
    /\ micro' = Tail(micro)
    /\ UNCHANGED calls

RunListening ==
    /\ HeadIs("listening")
    /\ ListeningJob(Head(micro).id, Head(micro).flag)
    /\ micro' = Tail(micro)
    /\ UNCHANGED calls

RunSrvClose ==
    /\ HeadIs("srvClose")
    /\ SrvCloseJob(Head(micro).id)
    /\ micro' = Tail(micro)
    /\ UNCHANGED calls

(***************************************************************************)
(* Specification of one socket driven by connect, _receiveData, destroy    *)
(***************************************************************************)
SoloSocket == "k1"

CallConnect ==
    /\ calls < MaxSockCalls
    /\ \E hasCb \in BOOLEAN : Connect(SoloSocket, hasCb)
    /\ calls' = calls + 1

CallDestroy ==
    /\ calls < MaxSockCalls
    /\ \E hasError \in BOOLEAN : Destroy(SoloSocket, hasError)
    /\ calls' = calls + 1

CallReceiveData ==
    /\ calls < MaxSockCalls
    /\ ReceiveData(SoloSocket)
    /\ calls' = calls + 1

NextSocket ==
    \/ CallConnect /\ UNCHANGED <<reqVars, resVars, brVars, codec, shimVars>>
    \/ CallDestroy /\ UNCHANGED <<reqVars, resVars, brVars, codec, shimVars>>
    \/ CallReceiveData /\ UNCHANGED <<reqVars, resVars, brVars, codec, shimVars>>
    \/ RunConnect /\ UNCHANGED <<reqVars, resVars, brVars, codec, shimVars>>
    \/ RunSockClose /\ UNCHANGED <<reqVars, resVars, brVars, codec, shimVars>>

SpecSocket == Init /\ [][NextSocket]_vars

(***************************************************************************)
(* Specification of the servers, their connections and the registry        *)
(***************************************************************************)
\* a socket is handed to one server at a time (each connection gets its own socket)
Unowned(k) == \A s \in Servers : k \notin Elems(connections[s])

CallListen ==
    /\ calls < MaxSrvCalls
    /\ \E s \in Servers, portArg \in PortArgs, r \in 0..(RandSpan - 1) :
          HttpListen(s, portArg, r)
    /\ calls' = calls + 1

CallClose ==
    /\ calls < MaxSrvCalls
    /\ \E s \in Servers : HttpClose(s)
    /\ calls' = calls + 1

CallHandleConnection ==
    /\ calls < MaxSrvCalls
    /\ \E s \in Servers, k \in Sockets : Unowned(k) /\ HandleConnection(s, k)
    /\ calls' = calls + 1

CallSocketDestroy ==
    /\ calls < MaxSrvCalls
    /\ \E k \in Sockets : Destroy(k, FALSE)
    /\ calls' = calls + 1

NextServer ==
    \/ CallListen /\ UNCHANGED <<reqVars, resVars, brVars, codec, shimVars>>
    \/ CallClose /\ UNCHANGED <<reqVars, resVars, brVars, codec, shimVars>>
    \/ CallHandleConnection /\ UNCHANGED <<reqVars, resVars, brVars, codec, shimVars>>
    \/ CallSocketDestroy /\ UNCHANGED <<reqVars, resVars, brVars, codec, shimVars>>
    \/ RunListening /\ UNCHANGED <<reqVars, resVars, brVars, codec, shimVars>>
    \/ RunSrvClose /\ UNCHANGED <<reqVars, resVars, brVars, codec, shimVars>>
    \/ RunSockClose /\ UNCHANGED <<reqVars, resVars, brVars, codec, shimVars>>

SpecServer == Init /\ [][NextServer]_vars

(***************************************************************************)
(* WebSocket frame codec: _parseWsFrame and _createWsFrame                 *)
(*                                                                         *)
(* A byte array is a sequence of numbers in 0..255; data[i] of the source  *)
(* is At(data, i).                                                         *)
(***************************************************************************)
Opcodes == {1, 2, 8, 9, 10}
PayloadLengths == {0, 125, 126, 65535, 65536}
Seeds == 0..MaxSeed
ZeroKey == <<0, 0, 0, 0>>
FastKey == <<255, 0, 128, 255>>
MaskKeys == {FastKey, <<18, 52, 86, 120>>, <<1, 2, 3, 4>>}

\* a ^ b on bytes, bit by bit
XorBits(a, b) ==
    ((a + b) % 2)
      + 2 * (((a \div 2) + (b \div 2)) % 2)
      + 4 * (((a \div 4) + (b \div 4)) % 2)
      + 8 * (((a \div 8) + (b \div 8)) % 2)
      + 16 * (((a \div 16) + (b \div 16)) % 2)
      + 32 * (((a \div 32) + (b \div 32)) % 2)
      + 64 * (((a \div 64) + (b \div 64)) % 2)
      + 128 * (((a \div 128) + (b \div 128)) % 2)

\* a ^ b on bytes; the three first cases are XorBits computed directly
Xor(a, b) ==
    IF b = 0 THEN a
    ELSE IF b = 255 THEN 255 - a
    ELSE IF b = 128 THEN (a + 128) % 256
    ELSE XorBits(a, b)

\* (b3 << 24) | (b2 << 16) | (b1 << 8) | b0 as the signed 32-bit number JS computes
Int32Of(b3, b2, b1, b0) ==
    (IF b3 >= 128 THEN b3 - 256 ELSE b3) * 16777216 + b2 * 65536 + b1 * 256 + b0

At(data, i) == data[i + 1]

\* data.slice(from, to) for from >= 0: an end past the length is the length,
\* a negative end counts from the length and is not less than 0
Slice(data, from, to) ==
    SubSeq(data, from + 1,
           IF to > Len(data) THEN Len(data)
           ELSE IF to >= 0 THEN to
           ELSE IF Len(data) + to > 0 THEN Len(data) + to
           ELSE 0)

\* what _parseWsFrame gives when it returns null, and when new Uint8Array(n) throws
Incomplete == [ok |-> FALSE, threw |-> FALSE]
Threw == [ok |-> FALSE, threw |-> TRUE]

\* faulty variant of UnmaskedComplete: looks at the header only
UnmaskedCompleteHeaderOnly(n, offset, payloadLength) == n >= offset

\* negation of  data.length < offset + payloadLength
UnmaskedComplete(n, offset, payloadLength) == n >= offset + payloadLength

\* _parseWsFrame(data)
ParseWsFrame(data) ==
    LET n == Len(data) IN
    IF n < 2 THEN Incomplete ELSE
    LET opcode == At(data, 0) % 16
        masked == At(data, 1) >= 128
        len7 == At(data, 1) % 128
    IN
    IF len7 = 126 /\ n < 4 THEN Incomplete
    ELSE IF len7 = 127 /\ n < 10 THEN Incomplete
    ELSE
    LET payloadLength ==
            IF len7 = 126 THEN At(data, 2) * 256 + At(data, 3)
            ELSE IF len7 = 127
                 THEN Int32Of(At(data, 6), At(data, 7), At(data, 8), At(data, 9))
                 ELSE len7
        offset == IF len7 = 126 THEN 4 ELSE IF len7 = 127 THEN 10 ELSE 2
    IN
    IF masked
    THEN IF n < offset + 4 + payloadLength THEN Incomplete
         ELSE IF payloadLength < 0 THEN Threw
         ELSE [ok |-> TRUE, threw |-> FALSE, opcode |-> opcode,
               payload |-> <<>> \o [i \in 1..payloadLength |->
                               Xor(data[offset + 4 + i], data[offset + 1 + ((i - 1) % 4)])],
               totalLength |-> offset + 4 + payloadLength]
    ELSE IF ~UnmaskedComplete(n, offset, payloadLength) THEN Incomplete
         ELSE [ok |-> TRUE, threw |-> FALSE, opcode |-> opcode,
               payload |-> Slice(data, offset, offset + payloadLength),
               totalLength |-> offset + payloadLength]

\* faulty variant of FitsIn7Bits: 126 taken for a 7-bit length
FitsIn7BitsOffByOne(length) == length <= 126

\* length <= 125
FitsIn7Bits(length) == length <= 125

\* headerSize of _createWsFrame
HeaderSize(length, masked) ==
    2 + (IF ~FitsIn7Bits(length) /\ length <= 65535 THEN 2
         ELSE IF length > 65535 THEN 8 ELSE 0)
      + (IF masked THEN 4 ELSE 0)

\* frame.length of the frame _createWsFrame allocates
FrameSize(length, masked) == HeaderSize(length, masked) + length

\* _createWsFrame(opcode, payload, masked); maskKey is the random key it draws
CreateWsFrame(opcode, payload, masked, maskKey) ==
    LET length == Len(payload)
        maskBit == IF masked THEN 128 ELSE 0
        header ==
            IF FitsIn7Bits(length) THEN <<128 + opcode, maskBit + length>>
            ELSE IF length <= 65535
                 THEN <<128 + opcode, maskBit + 126, (length \div 256) % 256, length % 256>>
                 ELSE <<128 + opcode, maskBit + 127, 0, 0, 0, 0,
                        (length \div 16777216) % 256, (length \div 65536) % 256,
                        (length \div 256) % 256, length % 256>>
    IN
    IF masked
    THEN header \o maskKey
           \o [i \in 1..length |-> Xor(payload[i], maskKey[((i - 1) % 4) + 1])]
    ELSE header \o payload

\* a payload of the given length
PayloadOf(length, seed) == <<>> \o [i \in 1..length |-> (seed * 97 + i * 7) % 256]

\* where a frame is cut to get a prefix of it; FrameSize stands for the whole frame
PrefixCuts(opcode, length, masked) ==
    IF length <= 126 THEN 0..FrameSize(length, masked)
    ELSE IF opcode = 2 /\ length = 65536
         THEN {0, 1, 2, 5, 9, 10, 12, 14,
               FrameSize(length, masked) - 1, FrameSize(length, masked)}
         ELSE {FrameSize(length, masked)}

\* build a frame, cut it, parse what is left
CodecApply(opcode, length, masked, seed, maskKey, cut) ==
    LET payload == PayloadOf(length, seed)
        frame == CreateWsFrame(opcode, payload, masked, maskKey)
        data == Slice(frame, 0, cut)
    IN  codec' = [built |-> TRUE, raw |-> FALSE, opcode |-> opcode, payload |-> payload, masked |-> masked,
                  frame |-> frame, data |-> data, parsed |-> ParseWsFrame(data)]

CallCodec ==
    /\ ~codec.built
    /\ ~codec.raw
    /\ \E opcode \in Opcodes, length \in PayloadLengths, masked \in BOOLEAN, seed \in Seeds,
          maskKey \in MaskKeys \cup {ZeroKey} :
          /\ masked <=> maskKey # ZeroKey
          /\ length > 126 => seed = 0 /\ maskKey \in {ZeroKey, FastKey}
          /\ \E cut \in PrefixCuts(opcode, length, masked) :
                /\ cut < FrameSize(length, masked) =>
                       seed = 0 /\ maskKey \in {ZeroKey, FastKey}
                /\ CodecApply(opcode, length, masked, seed, maskKey, cut)

\* the two words of a 64-bit length field, most significant byte first
HighWords == {ZeroKey, <<0, 0, 0, 1>>, <<128, 0, 0, 0>>}

LowWords == {ZeroKey, <<0, 0, 0, 3>>, <<128, 0, 0, 0>>, <<255, 255, 255, 245>>,
             <<255, 255, 255, 255>>}

\* a frame header that declares a 64-bit length, followed by the mask key
\* when masked and by three bytes
RawFrame(opcode, masked, high, low) ==
    <<128 + opcode, (IF masked THEN 128 ELSE 0) + 127>> \o high \o low
        \o (IF masked THEN FastKey ELSE <<>>) \o <<1, 2, 3>>

\* parse bytes that no _createWsFrame call built
CallParseRaw ==
    /\ ~codec.built
    /\ ~codec.raw
    /\ \E opcode \in {1, 2}, masked \in BOOLEAN, high \in HighWords, low \in LowWords :
          codec' = [built |-> FALSE, raw |-> TRUE, masked |-> masked,
                    high |-> high, low |-> low,
                    data |-> RawFrame(opcode, masked, high, low),
                    parsed |-> ParseWsFrame(RawFrame(opcode, masked, high, low))]

NextCodec ==
    \/ CallCodec /\ UNCHANGED <<netVars, reqVars, resVars, brVars, shimVars>>
    \/ CallParseRaw /\ UNCHANGED <<netVars, reqVars, resVars, brVars, shimVars>>

SpecCodec == Init /\ [][NextCodec]_vars

(***************************************************************************)
(* createHash("sha1").update(s).digest("base64")                           *)
(*                                                                         *)
(* A string is the sequence of its character codes.  A 32-bit word is the  *)
(* pair of its 16-bit halves, high half first.                             *)
(***************************************************************************)
RECURSIVE And16(_, _)
And16(a, b) ==
    IF a = 0 \/ b = 0 THEN 0
    ELSE (a % 2) * (b % 2) + 2 * And16(a \div 2, b \div 2)

Xor16(a, b) == a + b - 2 * And16(a, b)

Xor32(x, y) == <<Xor16(x[1], y[1]), Xor16(x[2], y[2])>>

Add32(x, y) ==
    LET lo == x[2] + y[2]
    IN  <<(x[1] + y[1] + (lo \div 65536)) % 65536, lo % 65536>>

\* rotate left by n bits, 0 < n < 16
Rotl(x, n) ==
    LET p == 2 ^ n
        q == 2 ^ (16 - n)
    IN  <<((x[1] * p) % 65536) + (x[2] \div q), ((x[2] * p) % 65536) + (x[1] \div q)>>

Rotl30(x) == Rotl(<<x[2], x[1]>>, 14)

\* (b & c) | (~b & d)
Ch16(b, c, d) == And16(b, c) + And16(65535 - b, d)

\* (b & c) | (b & d) | (c & d)
Maj16(b, c, d) == And16(b, c) + And16(d, Xor16(b, c))

RoundF(t, b, c, d) ==
    IF t <= 20 THEN <<Ch16(b[1], c[1], d[1]), Ch16(b[2], c[2], d[2])>>
    ELSE IF t > 40 /\ t <= 60 THEN <<Maj16(b[1], c[1], d[1]), Maj16(b[2], c[2], d[2])>>
    ELSE Xor32(Xor32(b, c), d)

RoundK(t) ==
    IF t <= 20 THEN <<23170, 31129>>
    ELSE IF t <= 40 THEN <<28377, 60321>>
    ELSE IF t <= 60 THEN <<36635, 48348>>
    ELSE <<51810, 49622>>

Sha1Init == <<<<26437, 8961>>, <<61389, 43913>>, <<39098, 56574>>, <<4146, 21622>>,
              <<50130, 57840>>>>

\* the message followed by 0x80, zeros, and its length in bits as 8 bytes
Sha1Pad(msg) ==
    LET bits == 8 * Len(msg)
        zeros == (119 - (Len(msg) % 64)) % 64
    IN  msg \o <<128>> \o [i \in 1..zeros |-> 0]
            \o <<0, 0, 0, 0, (bits \div 16777216) % 256, (bits \div 65536) % 256,
                 (bits \div 256) % 256, bits % 256>>

WordsOf(bytes) ==
    <<>> \o [i \in 1..(Len(bytes) \div 4) |->
               <<bytes[4 * i - 3] * 256 + bytes[4 * i - 2],
                 bytes[4 * i - 1] * 256 + bytes[4 * i]>>]

RECURSIVE Schedule(_, _, _)
\* the message schedule: the words from..to are added to the words before them
Schedule(w, from, to) ==
    IF from = to
    THEN Append(w, Rotl(Xor32(Xor32(w[from - 3], w[from - 8]),
                              Xor32(w[from - 14], w[from - 16])), 1))
    ELSE LET mid == (from + to) \div 2
             left == Schedule(w, from, mid)
         IN  IF Len(left) = mid THEN Schedule(left, mid + 1, to) ELSE left

\* one round: temp = rotl5(a) + f(b, c, d) + e + k + w[t]
Round(st, w, t) ==
    <<Add32(Add32(Add32(Rotl(st[1], 5), RoundF(t, st[2], st[3], st[4])),
                  Add32(st[5], RoundK(t))), w[t]),
      st[1], Rotl30(st[2]), st[3], st[4]>>

RECURSIVE Rounds(_, _, _, _)
\* the rounds from..to
Rounds(st, w, from, to) ==
    IF from = to THEN Round(st, w, from)
    ELSE LET mid == (from + to) \div 2
             left == Rounds(st, w, from, mid)
         IN  IF Len(left) = 5 THEN Rounds(left, w, mid + 1, to) ELSE left

RECURSIVE Sha1Blocks(_, _)
Sha1Blocks(h, words) ==
    IF words = <<>> THEN h
    ELSE LET r == Rounds(h, Schedule(SubSeq(words, 1, 16), 17, 80), 1, 80)
         IN  Sha1Blocks(<<Add32(h[1], r[1]), Add32(h[2], r[2]), Add32(h[3], r[3]),
                          Add32(h[4], r[4]), Add32(h[5], r[5])>>,
                        SubSeq(words, 17, Len(words)))

\* the 20 bytes of the digest
Sha1(msg) ==
    LET h == Sha1Blocks(Sha1Init, WordsOf(Sha1Pad(msg)))
    IN  <<>> \o [i \in 1..20 |->
                   LET half == h[(i + 3) \div 4][IF (i - 1) % 4 < 2 THEN 1 ELSE 2]
                   IN  IF i % 2 = 1 THEN half \div 256 ELSE half % 256]

Base64Char(i) ==
    IF i < 26 THEN 65 + i
    ELSE IF i < 52 THEN 71 + i
    ELSE IF i < 62 THEN i - 4
    ELSE IF i = 62 THEN 43 ELSE 47

RECURSIVE Base64(_)
Base64(bytes) ==
    IF bytes = <<>> THEN <<>>
    ELSE LET n == Len(bytes)
             b1 == bytes[1]
             b2 == IF n >= 2 THEN bytes[2] ELSE 0
             b3 == IF n >= 3 THEN bytes[3] ELSE 0
         IN  <<Base64Char(b1 \div 4),
               Base64Char((b1 % 4) * 16 + (b2 \div 16)),
               IF n >= 2 THEN Base64Char((b2 % 16) * 4 + (b3 \div 64)) ELSE 61,
               IF n >= 3 THEN Base64Char(b3 % 64) ELSE 61>>
                 \o Base64(SubSeq(bytes, 4, n))

(***************************************************************************)
(* http ClientRequest (plain request path)                                 *)
(*                                                                         *)
(* req.pc is the position of the async function _performRequest:           *)
(*   "idle"      end() has not dispatched                                  *)
(*   "fetching"  suspended at  await fetch(...)                            *)
(*   "reading"   suspended at  await response.arrayBuffer()                *)
(*   "done"      returned                                                  *)
(* req.timeoutId says that this._timeoutId is set, req.timerPending that   *)
(* the timer it names can still fire, req.signalAborted that the           *)
(* AbortController handed to fetch has been aborted.                       *)
(* req.upgrade is this.headers["upgrade"], req.bridged says that           *)
(* _handleWebSocketUpgrade was called, req.ws is the state of the native   *)
(* WebSocket it created, req.errTimer that its setTimeout(..., 0) which    *)
(* emits the error is pending, req.ends counts the end() calls.            *)
(* req.wsKey is this.headers["sec-websocket-key"], req.acceptValue the     *)
(* constant acceptValue of _handleWebSocketUpgrade, req.responseAccept the *)
(* sec-websocket-accept header of the response emitted with "upgrade".     *)
(***************************************************************************)
\* clearTimeout(this._timeoutId) guarded by  if (this._timeoutId)
ClearTimer(r) == IF r.timeoutId THEN [r EXCEPT !.timerPending = FALSE] ELSE r

\* write(chunk): this._bodyChunks.push(buffer)
ReqWrite ==
    /\ req' = [req EXCEPT !.bodyChunks = @ + 1]
    /\ UNCHANGED reqLog

\* setTimeout(ms): this._timeout = ms  (positive says whether ms is non-zero)
ReqSetTimeout(positive) ==
    /\ req' = [req EXCEPT !.timeout = positive]
    /\ UNCHANGED reqLog

\* setHeader("Upgrade", value): this.headers[name.toLowerCase()] = value
ReqSetHeader(value) ==
    /\ req' = [req EXCEPT !.upgrade = value]
    /\ UNCHANGED reqLog

\* what the environment gives _handleWebSocketUpgrade: no native WebSocket,
\* one whose constructor throws, or one that starts connecting
NativeOutcomes == {"absent", "throws", "ok"}

\* faulty variant of IsUpgrade: compares the header value as written
IsUpgradeExact(r) == r.upgrade = "websocket"

\* this.headers["upgrade"]?.toLowerCase() === "websocket"
IsUpgrade(r) == r.upgrade # NoHeader /\ LowerCase(r.upgrade) = "websocket"

\* setHeader("Sec-WebSocket-Key", value)
ReqSetKey(value) ==
    /\ req' = [req EXCEPT !.wsKey = [present |-> TRUE, value |-> value]]
    /\ UNCHANGED reqLog

\* faulty variant of Guid: the last character is another one
GuidOther ==
    <<50, 53, 56, 69, 65, 70, 65, 53, 45, 69, 57, 49, 52, 45, 52, 55, 68, 65, 45, 57,
      53, 67, 65, 45, 67, 53, 65, 66, 48, 68, 67, 56, 53, 66, 49, 48>>

\* const GUID = "258EAFA5-E914-47DA-95CA-C5AB0DC85B11"
Guid ==
    <<50, 53, 56, 69, 65, 70, 65, 53, 45, 69, 57, 49, 52, 45, 52, 55, 68, 65, 45, 57,
      53, 67, 65, 45, 67, 53, 65, 66, 48, 68, 67, 56, 53, 66, 49, 49>>

\* createHash("sha1").update(wsKey + GUID).digest("base64") with
\* wsKey = this.headers["sec-websocket-key"] || ""
AcceptValue(header) ==
    Base64(Sha1((IF header.present THEN header.value ELSE <<>>) \o Guid))

\* _handleWebSocketUpgrade(url)
HandleWebSocketUpgrade(r, native) ==
    IF native = "ok"
    THEN [r EXCEPT !.bridged = TRUE, !.ws = "connecting",
                   !.acceptValue = AcceptValue(r.wsKey)]
    ELSE [r EXCEPT !.bridged = TRUE, !.errTimer = TRUE]

\* whether _performRequest gets as far as calling fetch()
ReachesFetch(r) == ~r.aborted /\ ~IsUpgrade(r)

\* _performRequest() up to its first await, run synchronously inside end()
PerformRequestStart(r, native) ==
    IF r.aborted THEN [r EXCEPT !.pc = "done"]
    ELSE IF IsUpgrade(r) THEN HandleWebSocketUpgrade([r EXCEPT !.pc = "done"], native)
    ELSE [r EXCEPT !.timeoutId = IF r.timeout THEN TRUE ELSE @,
                   !.timerPending = IF r.timeout THEN TRUE ELSE @,
                   !.pc = "fetching"]

\* faulty variant of ReqEnd: dispatches on every call
ReqEndUnguarded(hasData, native) ==
    /\ req' = PerformRequestStart(
                 [req EXCEPT !.requestEnded = TRUE,
                             !.ends = @ + 1,
                             !.bodyChunks = IF hasData THEN @ + 1 ELSE @], native)
    /\ reqLog' = IF ReachesFetch(req) THEN Append(reqLog, "fetch") ELSE reqLog

\* end(data): hasData says whether a chunk was passed
ReqEnd(hasData, native) ==
    /\ req' = IF req.requestEnded THEN [req EXCEPT !.ends = @ + 1]
              ELSE PerformRequestStart(
                     [req EXCEPT !.requestEnded = TRUE,
                                 !.ends = @ + 1,
                                 !.bodyChunks = IF hasData THEN @ + 1 ELSE @], native)
    /\ reqLog' = IF ~req.requestEnded /\ ReachesFetch(req)
                 THEN Append(reqLog, "fetch") ELSE reqLog

\* abort()
ReqAbort ==
    /\ req' = ClearTimer([req EXCEPT !.aborted = TRUE])
    /\ reqLog' = Append(reqLog, "abort")

\* the timer set by _performRequest expires: controller.abort(); emit("timeout")
TimerFire ==
    /\ req.timerPending
    /\ req' = [req EXCEPT !.timerPending = FALSE, !.signalAborted = TRUE]
    /\ reqLog' = reqLog \o <<"hostAbort", "timeout">>

\* faulty variant of HostResolve: leaves the timer running
HostResolveKeepsTimer ==
    /\ req.pc = "fetching"
    /\ ~req.signalAborted
    /\ req' = [req EXCEPT !.pc = IF req.aborted THEN "done" ELSE "reading"]
    /\ UNCHANGED reqLog

\* fetch() resolves: clear the timer; return if aborted; else start reading the body
HostResolve ==
    /\ req.pc = "fetching"
    /\ ~req.signalAborted
    /\ req' = [ClearTimer(req) EXCEPT !.timeoutId = FALSE,
                                      !.pc = IF req.aborted THEN "done" ELSE "reading"]
    /\ UNCHANGED reqLog

\* the catch block of _performRequest; isAbortError: error.name === "AbortError"
CatchBlock(isAbortError) ==
    /\ req' = [ClearTimer(req) EXCEPT !.pc = "done"]
    /\ reqLog' = IF req.aborted \/ isAbortError THEN reqLog
                 ELSE Append(reqLog, "error")

\* fetch() rejects: with an AbortError once its signal is aborted, else a network error
HostReject ==
    /\ req.pc = "fetching"
    /\ CatchBlock(req.signalAborted)

\* response.arrayBuffer() resolves: msg._setBody(...); emit("response", msg)
BodyResolve ==
    /\ req.pc = "reading"
    /\ req' = [req EXCEPT !.pc = "done"]
    /\ reqLog' = Append(reqLog, "response")

\* response.arrayBuffer() rejects
BodyReject ==
    /\ req.pc = "reading"
    /\ CatchBlock(FALSE)

\* the setTimeout(..., 0) of _handleWebSocketUpgrade expires: emit("error", ...)
ErrTimerFire ==
    /\ req.errTimer
    /\ req' = [req EXCEPT !.errTimer = FALSE]
    /\ reqLog' = Append(reqLog, "error")

(***************************************************************************)
(* The WebSocket bridge of ClientRequest._handleWebSocketUpgrade           *)
(*                                                                         *)
(* req.ws is the host connection nativeWs:                                 *)
(*   none        no host connection was made                               *)
(*   connecting  readyState CONNECTING                                     *)
(*   open        readyState OPEN                                           *)
(*   closing     readyState CLOSING (close() was called)                   *)
(*   errored     readyState CLOSED, the error event was delivered and the  *)
(*               close event is still to come                              *)
(*   closed      readyState CLOSED, the close event was delivered          *)
(* br is the mock socket and the closure of the handlers:                  *)
(*   writeBuffer the bytes written and not yet consumed as frames          *)
(*   sent        the messages passed to nativeWs.send, in order            *)
(*   hostCloses  how many times nativeWs.close() took effect or was called *)
(*   observed    what the holder of the mock socket is given, in order:    *)
(*               frames pushed, "end", "close" and "error" notifications   *)
(*   destroyed   socket._destroyed                                         *)
(*   closeTimers the pending 10 ms timers of onclose                       *)
(*   stream      the frames the consumer is writing, when it writes a      *)
(*               stream in pieces                                          *)
(*   written     every byte passed to socket.write, in order               *)
(*   removed     every byte sliced off writeBuffer, in order               *)
(*   frames      the frames _parseWsFrame returned, in order               *)
(*   received    the messages the host connection delivered, in order      *)
(* A message is [kind, data]: data is the sequence of code points of a     *)
(* string message and the sequence of bytes of a binary one.               *)
(***************************************************************************)
Ev(t) == [t |-> t, bytes |-> <<>>]

FrameEv(bytes) == [t |-> "frame", bytes |-> bytes]

Message(kind, data) == [kind |-> kind, data |-> data]

\* TextEncoder.encode of one code point below U+10000
EncodeCodePoint(cp) ==
    IF cp < 128 THEN <<cp>>
    ELSE IF cp < 2048 THEN <<192 + (cp \div 64), 128 + (cp % 64)>>
    ELSE <<224 + (cp \div 4096), 128 + ((cp \div 64) % 64), 128 + (cp % 64)>>

RECURSIVE Utf8Encode(_)
\* new TextEncoder().encode(text)
Utf8Encode(text) ==
    IF text = <<>> THEN <<>>
    ELSE EncodeCodePoint(Head(text)) \o Utf8Encode(Tail(text))

IsContinuation(b) == b \div 64 = 2

RECURSIVE DecodeFrom(_)
\* the UTF-8 decoder of TextDecoder: sequences of one to three bytes, and
\* U+FFFD for a byte that starts no such sequence
DecodeFrom(bytes) ==
    IF bytes = <<>> THEN <<>>
    ELSE LET b == bytes[1]
             n == Len(bytes)
         IN  IF b < 128 THEN <<b>> \o DecodeFrom(Tail(bytes))
             ELSE IF b \div 32 = 6 /\ n >= 2 /\ IsContinuation(bytes[2])
             THEN <<((b % 32) * 64) + (bytes[2] % 64)>> \o DecodeFrom(SubSeq(bytes, 3, n))
             ELSE IF /\ b \div 16 = 14
                     /\ n >= 3
                     /\ IsContinuation(bytes[2])
                     /\ IsContinuation(bytes[3])
             THEN <<((b % 16) * 4096) + ((bytes[2] % 64) * 64) + (bytes[3] % 64)>>
                      \o DecodeFrom(SubSeq(bytes, 4, n))
             ELSE <<65533>> \o DecodeFrom(Tail(bytes))

Bom == <<239, 187, 191>>

\* new TextDecoder().decode(payload): the decoder is made without ignoreBOM,
\* so a leading byte order mark is consumed and not part of the string
Utf8Decode(bytes) ==
    IF Len(bytes) >= 3 /\ SubSeq(bytes, 1, 3) = Bom
    THEN DecodeFrom(SubSeq(bytes, 4, Len(bytes)))
    ELSE DecodeFrom(bytes)

\* nativeWs.close(): takes effect on a connection that is connecting or open
NativeClose(ws) == IF ws \in {"connecting", "open"} THEN "closing" ELSE ws

\* faulty variant of Dispatch: a pong frame is forwarded like a ping frame
DispatchForwardsPong(st, parsed) ==
    IF parsed.opcode = 8
    THEN [st EXCEPT !.ws = NativeClose(@), !.hostCloses = @ + 1]
    ELSE IF parsed.opcode = 1
    THEN [st EXCEPT !.sent = Append(@, Message("text", Utf8Decode(parsed.payload)))]
    ELSE [st EXCEPT !.sent = Append(@, Message("binary", parsed.payload))]

\* the body of the while loop of socket.write after the slice, for a frame
\* parsed while the host connection is open
Dispatch(st, parsed) ==
    IF parsed.opcode = 8
    THEN [st EXCEPT !.ws = NativeClose(@), !.hostCloses = @ + 1]
    ELSE IF parsed.opcode = 9
    THEN [st EXCEPT !.sent = Append(@, Message("binary", parsed.payload))]
    ELSE IF parsed.opcode = 10
    THEN st
    ELSE IF parsed.opcode = 1
    THEN [st EXCEPT !.sent = Append(@, Message("text", Utf8Decode(parsed.payload)))]
    ELSE IF parsed.opcode = 2
    THEN [st EXCEPT !.sent = Append(@, Message("binary", parsed.payload))]
    ELSE st

\* faulty variant of Consume: dispatches whatever nativeWs.readyState is
ConsumeAlways(st, parsed) ==
    Dispatch([st EXCEPT
                !.buf = Slice(@, parsed.totalLength, Len(@)),
                !.removed = @ \o Slice(st.buf, 0, parsed.totalLength),
                !.frames = Append(@, [opcode |-> parsed.opcode,
                                      payload |-> parsed.payload,
                                      totalLength |-> parsed.totalLength])], parsed)

\* one turn of the while loop of socket.write: slice the frame off, and
\* dispatch it when nativeWs.readyState is OPEN
Consume(st, parsed) ==
    LET sliced == [st EXCEPT
                     !.buf = Slice(@, parsed.totalLength, Len(@)),
                     !.removed = @ \o Slice(st.buf, 0, parsed.totalLength),
                     !.frames = Append(@, [opcode |-> parsed.opcode,
                                           payload |-> parsed.payload,
                                           totalLength |-> parsed.totalLength])]
    IN  IF sliced.ws # "open" THEN sliced ELSE Dispatch(sliced, parsed)

\* faulty variant of WriteLoop: parses one frame per write
WriteLoopOnce(st) ==
    IF Len(st.buf) < 2 THEN st
    ELSE LET parsed == ParseWsFrame(st.buf)
         IN  IF ~parsed.ok THEN st ELSE Consume(st, parsed)

RECURSIVE WriteLoop(_)
\* while (writeBuffer.length >= 2) { parsed = _parseWsFrame(writeBuffer);
\* if (!parsed) break; ... }
WriteLoop(st) ==
    IF Len(st.buf) < 2 THEN st
    ELSE LET parsed == ParseWsFrame(st.buf)
         IN  IF ~parsed.ok THEN st ELSE WriteLoop(Consume(st, parsed))

\* the mock socket and the host connection after socket.write(chunk)
Written(chunk) ==
    LET st == WriteLoop([buf |-> br.writeBuffer \o chunk,
                         ws |-> req.ws,
                         sent |-> br.sent,
                         hostCloses |-> br.hostCloses,
                         removed |-> br.removed,
                         frames |-> br.frames])
    IN  [ws |-> st.ws,
         br |-> [br EXCEPT !.writeBuffer = st.buf,
                           !.sent = st.sent,
                           !.hostCloses = st.hostCloses,
                           !.removed = st.removed,
                           !.frames = st.frames,
                           !.written = @ \o chunk]]

\* socket.write(chunk, cb) of the mock socket
BridgeWrite(chunk, hasCb) ==
    /\ req' = [req EXCEPT !.ws = Written(chunk).ws]
    /\ br' = Written(chunk).br
    /\ micro' = IF hasCb THEN Append(micro, Task("writeCb", "vs", TRUE)) ELSE micro
    /\ UNCHANGED reqLog

\* socket.write(chunk) of the next piece of a stream of frames
BridgeWriteOfStream(stream, chunk) ==
    /\ req' = [req EXCEPT !.ws = Written(chunk).ws]
    /\ br' = [Written(chunk).br EXCEPT !.stream = stream]
    /\ UNCHANGED <<reqLog, micro>>

\* faulty variant of DestroyClosesHost: closes the host connection always
DestroyClosesHostAlways(ws) == TRUE

\* the test of the destroy override: readyState is OPEN or CONNECTING
DestroyClosesHost(ws) == ws \in {"open", "connecting"}

\* socket.destroy(error) of the mock socket: the override, then
\* Socket.prototype.destroy
BridgeDestroy(hasError) ==
    /\ req' = [req EXCEPT !.ws = IF DestroyClosesHost(req.ws) THEN NativeClose(@) ELSE @]
    /\ br' = [br EXCEPT
                !.hostCloses = IF DestroyClosesHost(req.ws) THEN @ + 1 ELSE @,
                !.destroyed = TRUE,
                !.observed = IF ~br.destroyed /\ hasError
                             THEN Append(@, Ev("error")) ELSE @]
    /\ micro' = IF br.destroyed THEN micro
                ELSE Append(micro, Task("vsockClose", "vs", hasError))
    /\ UNCHANGED reqLog

\* the job queued by Socket.prototype.destroy: emit("close", !!error)
RunVsockClose ==
    /\ HeadIs("vsockClose")
    /\ br' = [br EXCEPT !.observed = Append(@, Ev("close"))]
    /\ micro' = Tail(micro)
    /\ UNCHANGED <<req, reqLog>>

\* faulty variant of WsOpen: the ready event on any host connection
WsOpenAnytime ==
    /\ req.ws # "none"
    /\ req' = [req EXCEPT !.ws = "open"]
    /\ reqLog' = Append(reqLog, "upgrade")

\* nativeWs.onopen: emit("upgrade", response, socket, head)
WsOpen ==
    /\ req.ws = "connecting"
    /\ req' = [req EXCEPT !.ws = "open", !.responseAccept = req.acceptValue]
    /\ reqLog' = Append(reqLog, "upgrade")

\* faulty variant of InboundFrame: masks the frame
InboundFrameMasked(msg) ==
    IF msg.kind = "text"
    THEN CreateWsFrame(1, Utf8Encode(msg.data), TRUE, FastKey)
    ELSE CreateWsFrame(2, msg.data, TRUE, FastKey)

\* the frame nativeWs.onmessage builds for a string or an ArrayBuffer
InboundFrame(msg) ==
    IF msg.kind = "text"
    THEN CreateWsFrame(1, Utf8Encode(msg.data), FALSE, ZeroKey)
    ELSE CreateWsFrame(2, msg.data, FALSE, ZeroKey)

\* nativeWs.onmessage: the host delivers messages only while the
\* connection is open
HostMessage(msg) ==
    /\ req.ws = "open"
    /\ br' = [br EXCEPT !.observed = Append(@, FrameEv(InboundFrame(msg))),
                        !.received = Append(@, msg)]
    /\ UNCHANGED <<req, reqLog, micro>>

\* nativeWs.onerror: the host has set readyState to CLOSED before it
\* delivers the error event, so the destroy override calls no close()
HostError ==
    /\ req.ws \in {"connecting", "open", "closing"}
    /\ req' = [req EXCEPT !.ws = "errored"]
    /\ br' = [br EXCEPT !.observed = Append(@, Ev("error")), !.destroyed = TRUE]
    /\ micro' = IF br.destroyed THEN micro
                ELSE Append(micro, Task("vsockClose", "vs", FALSE))
    /\ UNCHANGED reqLog

\* faulty variant of ClosePayload: low byte first
ClosePayloadLittleEndian(code) == <<code % 256, (code \div 256) % 256>>

\* closePayload of nativeWs.onclose
ClosePayload(code) ==
    LET c == IF code = 0 THEN 1000 ELSE code
    IN  <<(c \div 256) % 256, c % 256>>

\* nativeWs.onclose: a connection that never opened is closed after its
\* error event
HostClose(code) ==
    /\ req.ws \in {"open", "closing", "errored"}
    /\ req' = [req EXCEPT !.ws = "closed"]
    /\ br' = [br EXCEPT
                !.observed = Append(@, FrameEv(CreateWsFrame(8, ClosePayload(code),
                                                             FALSE, ZeroKey))),
                !.closeTimers = @ + 1]
    /\ UNCHANGED <<reqLog, micro>>

\* the setTimeout(..., 10) of nativeWs.onclose expires
CloseTimerFire ==
    /\ br.closeTimers > 0
    /\ br' = [br EXCEPT !.observed = @ \o <<Ev("end"), Ev("close")>>,
                        !.closeTimers = @ - 1]
    /\ UNCHANGED <<req, reqLog, micro>>

(***************************************************************************)
(* What the consumer writes and what the host delivers                     *)
(***************************************************************************)
ClientKey == <<18, 52, 86, 120>>

MakeFrame(opcode, payload, masked, maskKey) ==
    [opcode |-> opcode, payload |-> payload,
     bytes |-> CreateWsFrame(opcode, payload, masked, maskKey)]

TextFrame == MakeFrame(1, <<97>>, TRUE, ClientKey)

BomTextFrame == MakeFrame(1, Utf8Encode(<<65279, 97>>), TRUE, ClientKey)

EmptyBinaryFrame == MakeFrame(2, <<>>, FALSE, ZeroKey)

BinaryFrame == MakeFrame(2, <<0, 255>>, TRUE, FastKey)

LongBinaryFrame == MakeFrame(2, PayloadOf(126, 0), TRUE, FastKey)

CloseFrame == MakeFrame(8, <<3, 232>>, TRUE, ClientKey)

PingFrame == MakeFrame(9, <<7>>, TRUE, ClientKey)

PongFrame == MakeFrame(10, <<9>>, FALSE, ZeroKey)

DataFrames == {TextFrame, BomTextFrame, EmptyBinaryFrame, BinaryFrame}

ControlFrames == {CloseFrame, PingFrame, PongFrame}

RECURSIVE StreamBytes(_)
StreamBytes(stream) ==
    IF stream = <<>> THEN <<>>
    ELSE Head(stream).bytes \o StreamBytes(Tail(stream))

\* the writes of whole frames: one frame, or two frames in one chunk
WholeWrites ==
    {<<f>> : f \in {TextFrame, BinaryFrame} \cup ControlFrames}
        \cup {<<CloseFrame, TextFrame>>, <<PongFrame, PingFrame>>}

\* a write of whole frames and whether it passes a callback
WriteInputs ==
    {[frames |-> w, hasCb |-> FALSE] : w \in WholeWrites}
        \cup {[frames |-> <<TextFrame>>, hasCb |-> TRUE]}

\* the streams of text and binary frames written in pieces
Streams ==
    UNION {[1..n -> DataFrames] : n \in 1..MaxFrames} \cup {<<LongBinaryFrame>>}

\* where a chunk of a stream may end: anywhere in a short stream; in the
\* header, the extended length, the mask key and the payload of a long one
Cuts(bytes) ==
    IF Len(bytes) <= 32 THEN 1..Len(bytes)
    ELSE {1, 2, 3, 4, 6, 8, 9, 70, Len(bytes) - 1, Len(bytes)}

CloseCodes == {1000, 1006}

HostMessages == {Message("text", <<233, 8364>>), Message("binary", <<0, 255>>)}

\* the consumer holds the mock socket once "upgrade" was emitted
HasSocket == Count(reqLog, "upgrade") > 0

CallBridgeWrite ==
    /\ HasSocket
    /\ br.stream = <<>>
    /\ brCalls < MaxBrCalls
    /\ \E w \in WriteInputs : BridgeWrite(StreamBytes(w.frames), w.hasCb)
    /\ brCalls' = brCalls + 1

\* the next piece of the stream: the first write chooses the stream
CallStreamWrite ==
    /\ HasSocket
    /\ brCalls < MaxChunks
    /\ \E stream \in (IF br.written = <<>> THEN Streams ELSE {br.stream}) :
         LET bytes == StreamBytes(stream)
             from == Len(br.written)
         IN  \E to \in Cuts(bytes) :
               /\ to > from
               /\ BridgeWriteOfStream(stream, SubSeq(bytes, from + 1, to))
    /\ brCalls' = brCalls + 1

CallBridgeDestroy ==
    /\ HasSocket
    /\ brCalls < MaxBrCalls
    /\ \E hasError \in BOOLEAN : BridgeDestroy(hasError)
    /\ brCalls' = brCalls + 1

CallHostMessage ==
    /\ brCalls < MaxBrCalls
    /\ \E msg \in HostMessages : HostMessage(msg)
    /\ brCalls' = brCalls + 1

\* "dGhlIHNhbXBsZSBub25jZQ=="
SampleKey ==
    <<100, 71, 104, 108, 73, 72, 78, 104, 98, 88, 66, 115, 90, 83, 66, 117, 98, 50, 53,
      106, 90, 81, 61, 61>>

\* "AQIDBAUGBwgJCgsMDQ4PEA=="
OtherKey ==
    <<65, 81, 73, 68, 66, 65, 85, 71, 66, 119, 103, 74, 67, 103, 115, 77, 68, 81, 52,
      80, 69, 65, 61, 61>>

WsKeys == {SampleKey, OtherKey, <<>>}

\* the headers of a request are set before it is sent
CallReqSetKey ==
    /\ req.ends = 0
    /\ reqCalls < MaxReqCalls
    /\ \E value \in WsKeys : ReqSetKey(value)
    /\ reqCalls' = reqCalls + 1

\* the first end() of a request, with or without an Upgrade header
CallFirstEnd ==
    /\ req.ends = 0
    /\ reqCalls < MaxReqCalls
    /\ \E native \in NativeOutcomes : ReqEnd(FALSE, native)
    /\ reqCalls' = reqCalls + 1

CallReqSetHeader ==
    /\ reqCalls < MaxReqCalls
    /\ \E value \in UpgradeValues : ReqSetHeader(value)
    /\ reqCalls' = reqCalls + 1

CallReqWrite ==
    /\ reqCalls < MaxReqCalls
    /\ ReqWrite
    /\ reqCalls' = reqCalls + 1

CallReqSetTimeout ==
    /\ reqCalls < MaxReqCalls
    /\ \E positive \in BOOLEAN : ReqSetTimeout(positive)
    /\ reqCalls' = reqCalls + 1

CallReqEnd ==
    /\ reqCalls < MaxReqCalls
    /\ \E hasData \in BOOLEAN, native \in NativeOutcomes : ReqEnd(hasData, native)
    /\ reqCalls' = reqCalls + 1

CallReqAbort ==
    /\ reqCalls < MaxReqCalls
    /\ ReqAbort
    /\ reqCalls' = reqCalls + 1

NextRequest ==
    \/ CallReqSetHeader /\ UNCHANGED <<netVars, resVars, brVars, codec, shimVars>>
    \/ CallReqWrite /\ UNCHANGED <<netVars, resVars, brVars, codec, shimVars>>
    \/ CallReqSetTimeout /\ UNCHANGED <<netVars, resVars, brVars, codec, shimVars>>
    \/ CallReqEnd /\ UNCHANGED <<netVars, resVars, brVars, codec, shimVars>>
    \/ CallReqAbort /\ UNCHANGED <<netVars, resVars, brVars, codec, shimVars>>
    \/ TimerFire /\ UNCHANGED <<reqCalls, netVars, resVars, brVars, codec, shimVars>>
    \/ HostResolve /\ UNCHANGED <<reqCalls, netVars, resVars, brVars, codec, shimVars>>
    \/ HostReject /\ UNCHANGED <<reqCalls, netVars, resVars, brVars, codec, shimVars>>
    \/ BodyResolve /\ UNCHANGED <<reqCalls, netVars, resVars, brVars, codec, shimVars>>
    \/ BodyReject /\ UNCHANGED <<reqCalls, netVars, resVars, brVars, codec, shimVars>>
    \/ ErrTimerFire /\ UNCHANGED <<reqCalls, netVars, resVars, brVars, codec, shimVars>>
    \/ WsOpen /\ UNCHANGED <<reqCalls, netVars, resVars, brVars, codec, shimVars>>
    \/ HostError /\ UNCHANGED <<reqCalls, brCalls, bridgeFrame>>
    \/ (\E code \in CloseCodes : HostClose(code))
           /\ UNCHANGED <<reqCalls, brCalls, bridgeFrame>>
    \/ CloseTimerFire /\ UNCHANGED <<reqCalls, brCalls, bridgeFrame>>
    \/ RunVsockClose /\ UNCHANGED <<reqCalls, brCalls, bridgeFrame>>

SpecRequest == Init /\ [][NextRequest]_vars

(***************************************************************************)
(* http ServerResponse, as Server.handleRequest creates it                 *)
(*                                                                         *)
(* res.headers is the Map _headers, res.body the array _body of Buffers    *)
(* (a Buffer is a sequence of bytes).  resHist records what the caller     *)
(* and the resolver saw:                                                   *)
(*   resolved  the values passed to this._resolve, in order                *)
(*   throws    how many calls threw                                        *)
(*   finish    how many finish notifications were emitted                  *)
(*   sends     how many write()/end() calls were made                      *)
(*   ends      how many end() calls were made                              *)
(*   written   the bytes of every chunk passed to write()/end(), in order  *)
(***************************************************************************)
StatusCodes == {404, 500}
StatusMessages == {"Not Found"}
Chunks == {<<1>>, <<2, 3>>}
\* the headers object given to writeHead, as its list of entries
HeaderObjects == {<<>>, <<<<"X-A", "v2">>>>}

RECURSIVE Concat(_)
\* Buffer.concat(list)
Concat(list) == IF list = <<>> THEN <<>> ELSE Head(list) \o Concat(Tail(list))

\* setHeader(name, value) on the response r: the response after it and whether it threw
SetHeader(r, name, value) ==
    IF r.headersSent THEN [r |-> r, threw |-> TRUE]
    ELSE [r |-> [r EXCEPT !.headers[LowerCase(name)] = value], threw |-> FALSE]

\* removeHeader(name)
RemoveHeader(r, name) ==
    IF r.headersSent THEN [r |-> r, threw |-> TRUE]
    ELSE [r |-> [r EXCEPT !.headers[LowerCase(name)] = NoHeader], threw |-> FALSE]

RECURSIVE SetHeaders(_, _)
\* for (const [key, value] of Object.entries(headers)) this.setHeader(key, value)
SetHeaders(r, entries) ==
    IF entries = <<>> THEN [r |-> r, threw |-> FALSE]
    ELSE LET o == SetHeader(r, Head(entries)[1], Head(entries)[2]) IN
         IF o.threw THEN o ELSE SetHeaders(o.r, Tail(entries))

\* writeHead(statusCode, statusMessage?, headers?): msgArg is <<>> or <<message>>
WriteHead(r, code, msgArg, entries) ==
    LET r1 == [r EXCEPT !.statusCode = code]
        r2 == IF msgArg # <<>> THEN [r1 EXCEPT !.statusMessage = msgArg[1]] ELSE r1
    IN  SetHeaders(r2, entries)

\* write(chunk) on the response r
Write(r, chunk) == [r EXCEPT !.headersSent = TRUE, !.body = Append(@, chunk)]

\* the object end() passes to this._resolve
ResolvedValue(r) ==
    [statusCode |-> r.statusCode, statusMessage |-> r.statusMessage,
     headers |-> r.headers, body |-> Concat(r.body)]

\* the Promise of handleRequest settles with the first value given to resolve
Exchange == IF resHist.resolved = <<>> THEN <<>> ELSE <<Head(resHist.resolved)>>

Thrown(threw) == [resHist EXCEPT !.throws = IF threw THEN @ + 1 ELSE @]

ResSetHeader(name, value) ==
    LET o == SetHeader(res, name, value) IN
    /\ res' = o.r
    /\ resHist' = Thrown(o.threw)
    /\ UNCHANGED micro

ResRemoveHeader(name) ==
    LET o == RemoveHeader(res, name) IN
    /\ res' = o.r
    /\ resHist' = Thrown(o.threw)
    /\ UNCHANGED micro

ResWriteHead(code, msgArg, entries) ==
    LET o == WriteHead(res, code, msgArg, entries) IN
    /\ res' = o.r
    /\ resHist' = Thrown(o.threw)
    /\ UNCHANGED micro

\* write(chunk, cb): hasCb says whether a callback was passed
ResWrite(chunk, hasCb) ==
    /\ res' = Write(res, chunk)
    /\ resHist' = [resHist EXCEPT !.sends = @ + 1, !.written = @ \o chunk]
    /\ micro' = IF hasCb THEN Append(micro, Task("writeCb", "res", TRUE)) ELSE micro

\* end(chunk, cb): chunkArg is <<>> or <<chunk>>
ResEnd(chunkArg, hasCb) ==
    LET r1 == IF chunkArg # <<>> THEN Write(res, chunkArg[1]) ELSE res
        r2 == [r1 EXCEPT !.headersSent = TRUE, !.finished = TRUE]
    IN  /\ res' = r2
        /\ resHist' = [resHist EXCEPT
                          !.resolved = Append(@, ResolvedValue(r2)),
                          !.sends = @ + 1,
                          !.ends = @ + 1,
                          !.written = IF chunkArg # <<>> THEN @ \o chunkArg[1] ELSE @]
        /\ micro' = Append(micro, Task("finish", "res", hasCb))

\* the job queued by write(): cb(null)
RunWriteCb ==
    /\ HeadIs("writeCb")
    /\ micro' = Tail(micro)
    /\ UNCHANGED <<res, resHist, resCalls>>

\* the job queued by end(): emit("finish"), then the callback
RunFinish ==
    /\ HeadIs("finish")
    /\ resHist' = [resHist EXCEPT !.finish = @ + 1]
    /\ micro' = Tail(micro)
    /\ UNCHANGED <<res, resCalls>>

CallResSetHeader ==
    /\ resCalls < MaxResCalls
    /\ \E name \in HeaderNames, value \in HeaderValues : ResSetHeader(name, value)
    /\ resCalls' = resCalls + 1

CallResRemoveHeader ==
    /\ resCalls < MaxResCalls
    /\ \E name \in HeaderNames : ResRemoveHeader(name)
    /\ resCalls' = resCalls + 1

CallResWriteHead ==
    /\ resCalls < MaxResCalls
    /\ \E code \in StatusCodes, msgArg \in {<<>>} \cup {<<m>> : m \in StatusMessages},
          entries \in HeaderObjects : ResWriteHead(code, msgArg, entries)
    /\ resCalls' = resCalls + 1

CallResWrite ==
    /\ resCalls < MaxResCalls
    /\ \E chunk \in Chunks, hasCb \in BOOLEAN : ResWrite(chunk, hasCb)
    /\ resCalls' = resCalls + 1

CallResEnd ==
    /\ resCalls < MaxResCalls
    /\ \E chunkArg \in {<<>>} \cup {<<c>> : c \in Chunks}, hasCb \in BOOLEAN :
          ResEnd(chunkArg, hasCb)
    /\ resCalls' = resCalls + 1

\* what a ServerResponse never touches
otherVars == <<sock, sockLog, closeListeners, closedBy, srv, connections, registry,
              srvEmits, regCallbacks, calls, req, reqLog, reqCalls, br, brCalls, codec, shimVars>>

NextResponse ==
    \/ CallResSetHeader /\ UNCHANGED otherVars
    \/ CallResRemoveHeader /\ UNCHANGED otherVars
    \/ CallResWriteHead /\ UNCHANGED otherVars
    \/ CallResWrite /\ UNCHANGED otherVars
    \/ CallResEnd /\ UNCHANGED otherVars
    \/ RunWriteCb /\ UNCHANGED otherVars
    \/ RunFinish /\ UNCHANGED otherVars

SpecResponse == Init /\ [][NextResponse]_vars

\* the host's events of a bridge session
HostEvent ==
    \/ ErrTimerFire /\ UNCHANGED <<micro, br>>
    \/ WsOpen /\ UNCHANGED <<micro, br>>
    \/ HostError
    \/ \E code \in CloseCodes : HostClose(code)
    \/ CloseTimerFire
    \/ RunVsockClose

NextBridge ==
    \/ reqCalls = 0 /\ CallReqSetHeader /\ UNCHANGED <<netVars, resVars, brVars, codec, shimVars>>
    \/ CallFirstEnd /\ UNCHANGED <<netVars, resVars, brVars, codec, shimVars>>
    \/ HostEvent /\ UNCHANGED <<reqCalls, brCalls, bridgeFrame>>
    \/ CallHostMessage /\ UNCHANGED <<reqCalls, bridgeFrame>>
    \/ CallBridgeWrite /\ UNCHANGED <<reqCalls, bridgeFrame>>
    \/ CallBridgeDestroy /\ UNCHANGED <<reqCalls, bridgeFrame>>
    \/ RunWriteCb /\ UNCHANGED <<otherVars>>

SpecBridge == Init /\ [][NextBridge]_vars

NextAccept ==
    \/ CallReqSetKey /\ UNCHANGED <<netVars, resVars, brVars, codec, shimVars>>
    \/ req.ends = 0 /\ CallReqSetHeader /\ UNCHANGED <<netVars, resVars, brVars, codec, shimVars>>
    \/ CallFirstEnd /\ UNCHANGED <<netVars, resVars, brVars, codec, shimVars>>
    \/ HostEvent /\ UNCHANGED <<reqCalls, brCalls, bridgeFrame>>

SpecAccept == Init /\ [][NextAccept]_vars

NextBridgeStream ==
    \/ reqCalls = 0 /\ CallReqSetHeader /\ UNCHANGED <<netVars, resVars, brVars, codec, shimVars>>
    \/ CallFirstEnd /\ UNCHANGED <<netVars, resVars, brVars, codec, shimVars>>
    \/ WsOpen /\ UNCHANGED <<reqCalls, netVars, resVars, brVars, codec, shimVars>>
    \/ CallStreamWrite /\ UNCHANGED <<reqCalls, bridgeFrame>>

SpecBridgeStream == Init /\ [][NextBridgeStream]_vars

(***************************************************************************)
(* ws-shim WebSocket: constructor, _connect, close, terminate              *)
(*                                                                         *)
(* The host has no WebSocket of its own here (NativeWS is null, as outside *)
(* a browser), so _nativeWs stays null.  A timer set earlier with a delay  *)
(* no longer than another's runs before it; otherwise either may run first.*)
(***************************************************************************)
MaxClientCalls == 4

\* the delay of the connection timeout of _connect
FallbackDelay == 100

\* url.startsWith("internal://"), url.startsWith("ws://") or "wss://", any other url
UrlKinds == {"internal", "external", "other"}

\* setTimeout(callback, delay)
Timer(type, delay) == [type |-> type, delay |-> delay]

\* the pending timers without the i-th
RemoveAt(seq, i) == SubSeq(seq, 1, i - 1) \o SubSeq(seq, i + 1, Len(seq))

\* whether the i-th pending timer can be the next to run
MayRun(timers, i) == \A j \in 1..(i - 1) : timers[j].delay > timers[i].delay

\* this.readyState = WebSocket.OPEN; this.emit("open"); this.onopen?.(...)
Opened(c) == [c EXCEPT !.readyState = OPEN, !.log = Append(@, "open")]

\* new WebSocket(url): setTimeout(() => this._connect(), 0)
NewWebSocket(kind, hasChannel) ==
    /\ ~client.made
    /\ client' = [client EXCEPT !.made = TRUE, !.kind = kind, !.channel = hasChannel,
                                !.timers = Append(@, Timer("connect", 0))]

\* _connect(), and _connectNative() where the host has no WebSocket
ConnectOf(c) ==
    IF c.kind = "internal" THEN Opened(c)
    ELSE IF c.kind = "external" \/ ~c.channel
    THEN [c EXCEPT !.timers = Append(@, Timer("open", 0))]
    ELSE [c EXCEPT !.posted = Append(@, "connect"),
                   !.handler = TRUE,
                   !.timers = Append(@, Timer("fallback", FallbackDelay))]

\* the connection timeout of _connect
FallbackOf(c) == IF c.readyState = CONNECTING THEN Opened(c) ELSE c

\* the callback of close(): readyState = CLOSED, emit("close")
ClosedOf(c) == [c EXCEPT !.readyState = CLOSED, !.log = Append(@, "close")]

\* a pending timer runs
ClientTimerFire ==
    \E i \in 1..Len(client.timers) :
       /\ MayRun(client.timers, i)
       /\ LET c == [client EXCEPT !.timers = RemoveAt(@, i)]
              type == client.timers[i].type IN
          client' = CASE type = "connect" -> ConnectOf(c)
                      [] type = "open" -> Opened(c)
                      [] type = "fallback" -> FallbackOf(c)
                      [] type = "close" -> ClosedOf(c)

\* the handler of _connect receives a message addressed to this client
ChannelMessage(type) ==
    /\ client.handler
    /\ client' = CASE type = "connected" -> Opened(client)
                   [] type = "message" -> [client EXCEPT !.log = Append(@, "message")]
                   [] type = "close" -> [ClosedOf(client) EXCEPT !.handler = FALSE]
                   [] type = "error" -> [client EXCEPT !.log = Append(@, "error")]

\* close(code, reason)
ShimClose ==
    /\ client.made
    /\ LET c == [client EXCEPT !.log = Append(@, "close()")] IN
       client' = IF c.readyState = CLOSED \/ c.readyState = CLOSING THEN c
                 ELSE [c EXCEPT !.readyState = CLOSING,
                                !.posted = IF c.channel THEN Append(@, "disconnect") ELSE @,
                                !.timers = Append(@, Timer("close", 0))]

\* terminate()
ShimTerminate ==
    /\ client.made
    /\ client' = ClosedOf([client EXCEPT !.log = Append(@, "terminate()")])

ChannelMessageTypes == {"connected", "message", "close", "error"}

CallNewWebSocket ==
    /\ \E kind \in UrlKinds, hasChannel \in BOOLEAN : NewWebSocket(kind, hasChannel)
    /\ UNCHANGED clientCalls

CallShimClose ==
    /\ clientCalls < MaxClientCalls
    /\ ShimClose
    /\ clientCalls' = clientCalls + 1

CallShimTerminate ==
    /\ clientCalls < MaxClientCalls
    /\ ShimTerminate
    /\ clientCalls' = clientCalls + 1

CallChannelMessage ==
    /\ clientCalls < MaxClientCalls
    /\ \E type \in ChannelMessageTypes : ChannelMessage(type)
    /\ clientCalls' = clientCalls + 1

clientFrame == <<netVars, reqVars, resVars, brVars, codec, cluster, clusterCalls>>

NextWsShim ==
    \/ CallNewWebSocket /\ UNCHANGED clientFrame
    \/ CallShimClose /\ UNCHANGED clientFrame
    \/ CallShimTerminate /\ UNCHANGED clientFrame
    \/ CallChannelMessage /\ UNCHANGED clientFrame
    \/ ClientTimerFire /\ UNCHANGED <<clientCalls, clientFrame>>

SpecWsShim == Init /\ [][NextWsShim]_vars

(***************************************************************************)
(* cluster: Worker, fork, disconnect                                       *)
(*                                                                         *)
(* Every timer of the module has delay 0, so the timers run in the order   *)
(* they were set.  The log of a worker holds what the worker emitted, and  *)
(* the calls made on it with what send() returned, in order.               *)
(***************************************************************************)
MaxWorkers == 2
MaxClusterCalls == 3

\* new Worker(env): the fields of the object
WorkerInit ==
    [connected |-> TRUE, dead |-> FALSE, processConnected |-> TRUE,
     exitedAfterDisconnect |-> FALSE, log |-> <<>>]

\* the ids of the Worker objects made so far
WorkerIds == 1..Len(cluster.w)

\* one more entry in the log of worker id
Logged(cl, id, e) == [cl EXCEPT !.w[id].log = Append(@, e)]

\* faulty variant of FinalizeExit: no test of _dead
FinalizeExitUnguarded(cl, id) ==
    Logged([cl EXCEPT !.w[id].dead = TRUE, !.workers = @ \ {id}], id, "exit")

\* worker._finalizeExit(code, signal)
FinalizeExit(cl, id) ==
    IF cl.w[id].dead THEN cl
    ELSE Logged([cl EXCEPT !.w[id].dead = TRUE, !.workers = @ \ {id}], id, "exit")

\* what worker.send(message) returns
SendReturns(wr) == ~(~wr.connected \/ wr.dead)

\* worker.send(message, callback)
SendOf(cl, id) ==
    IF ~SendReturns(cl.w[id]) THEN Logged(cl, id, "send()=false")
    ELSE [Logged(cl, id, "send()=true") EXCEPT
            !.timers = Append(@, Timer("message", id))]

\* worker.disconnect()
DisconnectOf(cl, id) ==
    IF ~cl.w[id].connected \/ cl.w[id].dead THEN cl
    ELSE [Logged(cl, id, "disconnect") EXCEPT
            !.w[id].connected = FALSE,
            !.w[id].processConnected = FALSE,
            !.w[id].exitedAfterDisconnect = TRUE,
            !.timers = Append(@, Timer("exit", id))]

\* worker.kill(signal)
KillOf(cl, id) ==
    IF cl.w[id].dead THEN cl
    ELSE FinalizeExit([cl EXCEPT !.w[id].connected = FALSE,
                                 !.w[id].processConnected = FALSE], id)

RECURSIVE DisconnectEach(_, _, _)
\* activeWorkers.forEach(w => w.disconnect()), over the ids of the table that
\* are at least from, in increasing order
DisconnectEach(cl, ids, from) ==
    IF from > Len(cl.w) THEN cl
    ELSE DisconnectEach(IF from \in ids THEN DisconnectOf(cl, from) ELSE cl, ids, from + 1)

\* fork(env)
Fork ==
    /\ cluster.nextWorkerId <= MaxWorkers
    /\ cluster' = [cluster EXCEPT !.nextWorkerId = @ + 1,
                                  !.workers = @ \cup {cluster.nextWorkerId},
                                  !.w = Append(@, WorkerInit),
                                  !.timers = Append(@, Timer("online", cluster.nextWorkerId))]

\* worker.send(message)
WorkerSend(id) == cluster' = SendOf(cluster, id)

\* worker.disconnect(), the call recorded in the log
WorkerDisconnect(id) == cluster' = DisconnectOf(Logged(cluster, id, "disconnect()"), id)

\* worker.kill(), the call recorded in the log
WorkerKill(id) == cluster' = KillOf(Logged(cluster, id, "kill()"), id)

\* cluster.disconnect(callback)
ClusterDisconnect(hasCb) ==
    LET cl == DisconnectEach(cluster, cluster.workers, 1) IN
    cluster' = IF hasCb THEN [cl EXCEPT !.timers = Append(@, Timer("callback", 0))] ELSE cl

\* the timer set first runs
ClusterTimerFire ==
    /\ cluster.timers # <<>>
    /\ LET t == Head(cluster.timers)
           cl == [cluster EXCEPT !.timers = Tail(@)] IN
       cluster' = CASE t.type = "online" -> Logged(cl, t.delay, "online")
                    [] t.type = "message" -> Logged(cl, t.delay, "message")
                    [] t.type = "exit" -> FinalizeExit(cl, t.delay)
                    [] t.type = "callback" -> cl

CallFork ==
    /\ Fork
    /\ UNCHANGED clusterCalls

CallWorkerSend ==
    /\ clusterCalls < MaxClusterCalls
    /\ \E id \in WorkerIds : WorkerSend(id)
    /\ clusterCalls' = clusterCalls + 1

CallWorkerDisconnect ==
    /\ clusterCalls < MaxClusterCalls
    /\ \E id \in WorkerIds : WorkerDisconnect(id)
    /\ clusterCalls' = clusterCalls + 1

CallWorkerKill ==
    /\ clusterCalls < MaxClusterCalls
    /\ \E id \in WorkerIds : WorkerKill(id)
    /\ clusterCalls' = clusterCalls + 1

CallClusterDisconnect ==
    /\ clusterCalls < MaxClusterCalls
    /\ \E hasCb \in BOOLEAN : ClusterDisconnect(hasCb)
    /\ clusterCalls' = clusterCalls + 1

clusterFrame == <<netVars, reqVars, resVars, brVars, codec, client, clientCalls>>

NextCluster ==
    \/ CallFork /\ UNCHANGED clusterFrame
    \/ CallWorkerSend /\ UNCHANGED clusterFrame
    \/ CallWorkerDisconnect /\ UNCHANGED clusterFrame
    \/ CallWorkerKill /\ UNCHANGED clusterFrame
    \/ CallClusterDisconnect /\ UNCHANGED clusterFrame
    \/ ClusterTimerFire /\ UNCHANGED <<clusterCalls, clusterFrame>>

SpecCluster == Init /\ [][NextCluster]_vars

(***************************************************************************)
(* Properties                                                              *)
(***************************************************************************)
\* C1: a ClientRequest emits at most one terminal notification in all (a
\* response, an error or an abort), so none of them more than once.
C1_OneTerminalOutcome ==
    Count(reqLog, "response") + Count(reqLog, "error") + Count(reqLog, "abort") <= 1

\* C2: after an abort notification the ClientRequest emits no response and no
\* error notification.
C2_NothingAfterAbort ==
    \A i, j \in 1..Len(reqLog) :
        i < j /\ reqLog[i] = "abort" => reqLog[j] \notin {"response", "error"}

\* C3: once every deferred job has run, the registry maps port p to server s
\* exactly when s is listening (listen() called, not closed since) on port p.
C3_RegistryIffListening ==
    micro = <<>> =>
        \A p \in Ports, s \in Servers :
            registry[p] = s <=> (srv[s].listening /\ srv[s].address = <<p>>)

\* C4: two servers that are both Listening never have the same bound port.
C4_ListeningPortsUnique ==
    \A s, t \in Servers :
        s # t /\ srv[s].listening /\ srv[t].listening => srv[s].address # srv[t].address

\* C5: a destroyed socket is in state Closed (readyState "closed"), whatever
\* happens after destroy() returned.
C5_DestroyedStaysClosed ==
    \A k \in Sockets : sock[k].destroyed => sock[k].readyState = "closed"

\* C6: per socket, no connect notification follows data, nothing follows the
\* close notification, and close is emitted at most once.
C6_NotificationsOrdered ==
    \A k \in Sockets :
        /\ \A i, j \in 1..Len(sockLog[k]) :
              i < j => /\ ~(sockLog[k][i] = "data" /\ sockLog[k][j] = "connect")
                       /\ sockLog[k][i] # "close"
        /\ Count(sockLog[k], "close") <= 1

\* close jobs of socket k still waiting in the microtask queue
PendingClose(k) ==
    Cardinality({i \in 1..Len(micro) : micro[i].type = "sockClose" /\ micro[i].id = k})

\* C7: destroy() is idempotent.  The first call closes the socket, emits an
\* error notification inside the call iff it was given an error, and leaves
\* exactly one close notification to a later turn; a call on a destroyed socket
\* emits nothing and changes nothing; and for a destroyed socket the close
\* notifications emitted plus those still pending are exactly one.
C7_DestroyIdempotent ==
    [][ /\ \A e \in BOOLEAN :
              Destroy(SoloSocket, e) /\ calls' = calls + 1 =>
                 IF sock[SoloSocket].destroyed
                 THEN UNCHANGED <<sock, sockLog, micro>>
                 ELSE /\ sock'[SoloSocket].destroyed
                      /\ sock'[SoloSocket].readyState = "closed"
                      /\ sockLog'[SoloSocket] =
                            IF e THEN Append(sockLog[SoloSocket], "error")
                            ELSE sockLog[SoloSocket]
                      /\ PendingClose(SoloSocket)' = 1
        /\ (Count(sockLog[SoloSocket], "close") + PendingClose(SoloSocket))' =
              IF sock'[SoloSocket].destroyed THEN 1 ELSE 0
        /\ Count(sockLog'[SoloSocket], "error") <= 1
      ]_vars

\* C7 witness: destroy(error) was called twice and the jobs have run: one
\* error and one close were emitted (only a second destroy() leaves no trace).
C7_Witness ==
    /\ sock[SoloSocket].destroyed
    /\ sockLog[SoloSocket] = <<"error", "close">>
    /\ calls = 2
    /\ micro = <<>>

\* C8: connect() leaves the socket Connecting and emits nothing; the socket
\* becomes Open, and the connect notification is emitted, only by a deferred
\* job; the callback runs right after the connect notification.
C8_ConnectIsDeferred ==
    [][ /\ \A cb \in BOOLEAN :
              Connect(SoloSocket, cb) /\ calls' = calls + 1 =>
                 /\ sock'[SoloSocket].readyState = "opening"
                 /\ sock'[SoloSocket].connecting
                 /\ sockLog' = sockLog
        /\ calls' = calls + 1 =>
              /\ sock'[SoloSocket].readyState = "open" => sock[SoloSocket].readyState = "open"
              /\ Count(sockLog'[SoloSocket], "connect") = Count(sockLog[SoloSocket], "connect")
              /\ Count(sockLog'[SoloSocket], "connectCb") = Count(sockLog[SoloSocket], "connectCb")
        /\ \A i \in 1..Len(sockLog'[SoloSocket]) :
              sockLog'[SoloSocket][i] = "connectCb" =>
                 i > 1 /\ sockLog'[SoloSocket][i - 1] = "connect"
      ]_vars

\* C8 witness: a connect(port, cb) has completed: Open, connect then callback.
C8_Witness ==
    /\ sock[SoloSocket].readyState = "open"
    /\ sockLog[SoloSocket] = <<"connect", "connectCb">>

\* C9: close() of a server empties its connection set and queues one close
\* notification for each connection that was open; and when the close
\* notification of a socket destroyed by a server's close() fires, that server
\* is in no entry of the registry.
C9_CloseNotifiesEachConnection ==
    [][ /\ \A s \in Servers :
              HttpClose(s) /\ calls' = calls + 1 =>
                 /\ connections'[s] = <<>>
                 /\ \A k \in Sockets :
                       PendingClose(k)' - PendingClose(k) =
                          IF k \in Elems(connections[s]) /\ ~sock[k].destroyed THEN 1 ELSE 0
        /\ RunSockClose /\ closedBy[Head(micro).id] # NoServer =>
              \A p \in Ports : registry[p] # closedBy[Head(micro).id]
      ]_vars

\* C10: closing server a leaves a server b bound to another port as it was:
\* b's registry entry, state and connection set are unchanged and none of its
\* sockets is touched; and _handleConnection admits the socket iff the server
\* it is called on is Listening, leaving every other server as it was.
C10_CloseLeavesOtherServer ==
    [][ /\ \A a, b \in Servers :
              /\ a # b
              /\ HttpClose(a) /\ calls' = calls + 1
              /\ srv[a].address # srv[b].address
              => /\ srv'[b] = srv[b]
                 /\ connections'[b] = connections[b]
                 /\ \A k \in Elems(connections[b]) :
                       sock'[k] = sock[k] /\ PendingClose(k)' = PendingClose(k)
                 /\ srv[b].address # <<>> =>
                       registry'[srv[b].address[1]] = registry[srv[b].address[1]]
        /\ \A s \in Servers, k \in Sockets :
              /\ Unowned(k)
              /\ HandleConnection(s, k) /\ calls' = calls + 1
              => /\ (k \in Elems(connections'[s])) <=> srv[s].listening
                 /\ srv[s].listening => sock'[k] = sock[k]
                 /\ ~srv[s].listening => sock'[k].destroyed
                 /\ \A t \in Servers \ {s} : connections'[t] = connections[t]
                 /\ srv' = srv /\ registry' = registry
      ]_vars

\* C10 witness: h2 was bound to its own port and has been closed, while h1 is
\* still Listening, registered under its port, and owns a live connection.
C10_Witness ==
    /\ srv["h1"].listening /\ srv["h1"].address # <<>>
    /\ srv["h2"].address # <<>> /\ ~srv["h2"].listening
    /\ srv["h1"].address # srv["h2"].address
    /\ registry[srv["h1"].address[1]] = "h1"
    /\ connections["h1"] # <<>>
    /\ \A k \in Elems(connections["h1"]) : ~sock[k].destroyed

(***************************************************************************)
(* C11: a second close() on a server that is already Closed (it listened,  *)
(* was closed, and its close notification went out) is a no-op: it queues  *)
(* no further close notification, does not invoke the registry's close     *)
(* callback again, and leaves the registry and the server state unchanged. *)
(***************************************************************************)
Closed(s) ==
    /\ srv[s].address # <<>>
    /\ ~srv[s].listening
    /\ srvEmits[s].close >= 1
    /\ \A i \in 1..Len(micro) : micro[i].id # s

C11_SecondCloseIsNoOp ==
    [][\A s \in Servers :
          (HttpClose(s) /\ calls' = calls + 1 /\ Closed(s))
             => UNCHANGED <<registry, srv, micro, regCallbacks>>]_vars

(***************************************************************************)
(* C12: listen() does not emit the listening notification itself, and when *)
(* the notification goes out for a server that is still Listening, its     *)
(* observers find the server under its port in the registry.               *)
(***************************************************************************)
C12_RegisteredBeforeListening ==
    [][/\ (CallListen => srvEmits' = srvEmits)
       /\ \A s \in Servers :
             (RunListening /\ Head(micro).id = s /\ srv[s].listening)
                => registry[srv[s].address[1]] = s]_vars

(***************************************************************************)
(* C13: _handleConnection on a Listening server adds the socket to the     *)
(* server's connections and emits one connection notification, leaving the *)
(* socket as it is; on a server that is not Listening it destroys the      *)
(* socket, adds nothing and emits nothing.                                 *)
(***************************************************************************)
C13_AdmissionControl ==
    [][\A s \in Servers, k \in Sockets :
          (HandleConnection(s, k) /\ calls' = calls + 1)
             => IF srv[s].listening
                THEN /\ k \in Elems(connections'[s])
                     /\ srvEmits'[s].connection = srvEmits[s].connection + 1
                     /\ sock'[k] = sock[k]
                ELSE /\ sock'[k].destroyed
                     /\ connections' = connections
                     /\ srvEmits' = srvEmits]_vars

C13_Witness ==
    /\ srv["h1"].listening /\ "k1" \in Elems(connections["h1"])
    /\ srvEmits["h1"].connection = 1
    /\ ~srv["h2"].listening /\ srvEmits["h2"].connection = 0
    /\ sock["k2"].destroyed /\ closedBy["k2"] = NoServer

(***************************************************************************)
(* C14: once write() or end() has been called on a ServerResponse, every   *)
(* writeHead, setHeader and removeHeader call throws and leaves the status *)
(* code, status message and header map as they were; before that, the      *)
(* same calls do not throw.                                                *)
(***************************************************************************)
HeaderCall ==
    \/ \E name \in HeaderNames, value \in HeaderValues : ResSetHeader(name, value)
    \/ \E name \in HeaderNames : ResRemoveHeader(name)
    \/ \E code \in StatusCodes, msgArg \in {<<>>} \cup {<<m>> : m \in StatusMessages},
          entries \in HeaderObjects : ResWriteHead(code, msgArg, entries)

C14_HeadersFrozenAfterSend ==
    [][(HeaderCall /\ resCalls' = resCalls + 1)
          => IF resHist.sends > 0
             THEN /\ resHist'.throws = resHist.throws + 1
                  /\ res'.statusCode = res.statusCode
                  /\ res'.statusMessage = res.statusMessage
                  /\ res'.headers = res.headers
             ELSE resHist'.throws = resHist.throws]_vars

(***************************************************************************)
(* C15: a write() on a ServerResponse on which end() has been called       *)
(* changes neither the body chunks nor any flag.                           *)
(***************************************************************************)
C15_WriteAfterEndIsNoOp ==
    [][\A chunk \in Chunks, hasCb \in BOOLEAN :
          (ResWrite(chunk, hasCb) /\ resCalls' = resCalls + 1 /\ resHist.ends > 0)
             => res' = res]_vars

(***************************************************************************)
(* C16: the first end() passes to the resolver the status code, status     *)
(* message and headers current at that call and, as body, the bytes of     *)
(* every chunk given to write()/end() so far in call order; later end()    *)
(* calls do not invoke the resolver.                                       *)
(***************************************************************************)
C16_ResolvedOnceAtFirstEnd ==
    [][\A chunkArg \in {<<>>} \cup {<<c>> : c \in Chunks}, hasCb \in BOOLEAN :
          (ResEnd(chunkArg, hasCb) /\ resCalls' = resCalls + 1)
             => IF resHist.ends = 0
                THEN resHist'.resolved =
                        <<[statusCode |-> res.statusCode,
                           statusMessage |-> res.statusMessage,
                           headers |-> res.headers,
                           body |-> resHist'.written]>>
                ELSE resHist'.resolved = resHist.resolved]_vars

(***************************************************************************)
(* C17: a ClientRequest calls the host's fetch at most once: a step calls  *)
(* it exactly when the step is the first end() of a request that was not   *)
(* aborted before and carries no websocket Upgrade header; write(),        *)
(* abort() and later end() calls never call it.                            *)
(***************************************************************************)
WebSocketSpellings == {"websocket", "WebSocket"}

FirstEndOfPlainRequest ==
    /\ \E hasData \in BOOLEAN, native \in NativeOutcomes : ReqEnd(hasData, native)
    /\ reqCalls' = reqCalls + 1
    /\ req.ends = 0
    /\ ~req.aborted
    /\ req.upgrade \notin WebSocketSpellings

C17_OneDispatch ==
    /\ [](Count(reqLog, "fetch") <= 1)
    /\ [][Count(reqLog', "fetch") =
            Count(reqLog, "fetch") + (IF FirstEndOfPlainRequest THEN 1 ELSE 0)]_vars

C17_Witness ==
    /\ req.ends >= 2
    /\ Count(reqLog, "fetch") = 1
    /\ req.bodyChunks >= 1
    /\ req.aborted

(***************************************************************************)
(* C18: when the timeout timer of a ClientRequest expires, the timeout     *)
(* notification is emitted before the host call is aborted.                *)
(***************************************************************************)
C18_TimeoutBeforeHostAbort ==
    \A i \in 1..Len(reqLog) :
        reqLog[i] = "hostAbort" => \E j \in 1..(i - 1) : reqLog[j] = "timeout"

(***************************************************************************)
(* C19: the timer can expire only while the host call is pending, so once  *)
(* the host call has resolved or rejected no timeout is emitted; when the  *)
(* timer expires the host call is aborted, timeout is emitted (once per    *)
(* request), and no response or error notification follows it.             *)
(***************************************************************************)
C19_TimeoutRace ==
    /\ [](req.timerPending => req.pc = "fetching")
    /\ [](Count(reqLog, "timeout") <= 1)
    /\ [](\A i, j \in 1..Len(reqLog) :
            i < j /\ reqLog[i] = "timeout" => reqLog[j] \notin {"response", "error"})
    /\ [][Count(reqLog', "timeout") > Count(reqLog, "timeout")
            => /\ req.pc = "fetching"
               /\ Count(reqLog', "hostAbort") = Count(reqLog, "hostAbort") + 1
               /\ req'.signalAborted]_vars

C19_Witness ==
    /\ Count(reqLog, "timeout") = 1
    /\ req.pc = "done"
    /\ ~req.aborted

(***************************************************************************)
(* C20: a ClientRequest whose Upgrade header is websocket in any letter    *)
(* case is handed to _handleWebSocketUpgrade at its first end() (unless    *)
(* aborted before); for such a request fetch is never called, no response  *)
(* and no timeout is emitted, and the dispatch ends in at most one         *)
(* notification, an upgrade or an error.                                   *)
(***************************************************************************)
FirstEndOfUpgradeRequest ==
    /\ \E hasData \in BOOLEAN, native \in NativeOutcomes : ReqEnd(hasData, native)
    /\ reqCalls' = reqCalls + 1
    /\ req.ends = 0
    /\ ~req.aborted
    /\ req.upgrade \in WebSocketSpellings

C20_UpgradeGoesToBridgeOnly ==
    /\ [][FirstEndOfUpgradeRequest => req'.bridged /\ reqLog' = reqLog]_vars
    /\ [](req.bridged =>
            /\ Count(reqLog, "fetch") = 0
            /\ Count(reqLog, "response") = 0
            /\ Count(reqLog, "timeout") = 0
            /\ Count(reqLog, "upgrade") + Count(reqLog, "error") <= 1
            /\ \A i \in 1..Len(reqLog) : reqLog[i] \in {"upgrade", "error", "abort"})

C20_Witness ==
    /\ req.bridged
    /\ req.upgrade = "WebSocket"
    /\ Count(reqLog, "upgrade") = 1

(***************************************************************************)
(* C29: a frame built by _createWsFrame from any opcode, a payload of      *)
(* length 0, 125, 126, 65535 or 65536, masked or not, is parsed by         *)
(* _parseWsFrame into the same opcode and payload, with totalLength the    *)
(* length of the frame.                                                    *)
(***************************************************************************)
C29_CodecRoundTrip ==
    (codec.built /\ codec.data = codec.frame)
       => /\ codec.parsed.ok
          /\ codec.parsed.opcode = codec.opcode
          /\ codec.parsed.payload = codec.payload
          /\ codec.parsed.totalLength = Len(codec.frame)

C29_Witness ==
    /\ codec.built /\ codec.data = codec.frame
    /\ codec.masked /\ codec.opcode = 2 /\ Len(codec.payload) = 65536
    /\ codec.parsed.ok

(***************************************************************************)
(* C30: _parseWsFrame returns null, and neither throws nor returns a       *)
(* frame, on every proper prefix of a built frame.                         *)
(***************************************************************************)
C30_PrefixIsIncomplete ==
    (codec.built /\ Len(codec.data) < Len(codec.frame)) => codec.parsed = Incomplete

C30_Witness ==
    /\ codec.built
    /\ codec.masked /\ Len(codec.payload) = 65536
    /\ Len(codec.data) = 12
    /\ codec.parsed = Incomplete

(***************************************************************************)
(* The WebSocket bridge                                                    *)
(***************************************************************************)
\* the states of a bridge session, in order: AwaitingUpgrade (1), Open (2),
\* Closing (3), Closed (4); 0 before a host connection exists
SessionRank(ws) ==
    CASE ws = "none" -> 0
      [] ws = "connecting" -> 1
      [] ws = "open" -> 2
      [] ws = "closing" -> 3
      [] ws \in {"errored", "closed"} -> 4

RECURSIVE CompleteFrames(_, _)
\* how many leading frames of a stream lie wholly within its first n bytes
CompleteFrames(stream, n) ==
    IF stream = <<>> \/ Len(Head(stream).bytes) > n THEN 0
    ELSE 1 + CompleteFrames(Tail(stream), n - Len(Head(stream).bytes))

\* the message carries the frame's unmasked payload: its bytes for a binary
\* frame, the string whose UTF-8 encoding they are for a text frame
CarriesPayload(msg, frame) ==
    IF frame.opcode = 1
    THEN msg.kind = "text" /\ Utf8Encode(msg.data) = frame.payload
    ELSE msg.kind = "binary" /\ msg.data = frame.payload

\* C22: while the bridge is open, however a stream of complete text and
\* binary frames is cut into write() chunks, the messages sent on the host
\* connection are the unmasked payloads of the frames written in full so
\* far, one message per frame and in order
C22_OneMessagePerFrame ==
    (req.ws = "open" /\ br.stream # <<>>) =>
        LET k == CompleteFrames(br.stream, Len(br.written))
        IN  /\ Len(br.sent) = k
            /\ \A i \in 1..k : CarriesPayload(br.sent[i], br.stream[i])

RECURSIVE FramesLength(_)
\* the bytes the parsed frames take: the sum of their totalLength
FramesLength(frames) ==
    IF frames = <<>> THEN 0
    ELSE Head(frames).totalLength + FramesLength(Tail(frames))

\* C23: after every write() on the bridge socket the assembly buffer holds
\* no complete frame (_parseWsFrame reports it incomplete), the bytes
\* written are the bytes removed followed by the buffer, and the bytes
\* removed are those of the frames parsed, in order: of a stream of frames,
\* exactly the frames written in full, leaving the written part of the next
C23_BufferHoldsOnePartialFrame ==
    /\ ParseWsFrame(br.writeBuffer) = Incomplete
    /\ br.written = br.removed \o br.writeBuffer
    /\ Len(br.removed) = FramesLength(br.frames)
    /\ br.stream # <<>> =>
         LET k == CompleteFrames(br.stream, Len(br.written))
         IN  /\ Len(br.frames) = k
             /\ br.removed = StreamBytes(SubSeq(br.stream, 1, k))
             /\ \A i \in 1..k :
                  /\ br.frames[i].opcode = br.stream[i].opcode
                  /\ br.frames[i].payload = br.stream[i].payload
                  /\ br.frames[i].totalLength = Len(br.stream[i].bytes)

\* one write brought the whole first frame and a part of the second
C23_Witness ==
    /\ brCalls = 1
    /\ Len(br.frames) = 1
    /\ Len(br.writeBuffer) >= 2
    /\ Len(br.stream) = 2

RECURSIVE BeforeClose(_)
\* the frames of a write that come before its first close frame, pong
\* frames left out: the frames an open bridge forwards
BeforeClose(frames) ==
    IF frames = <<>> \/ Head(frames).opcode = 8 THEN <<>>
    ELSE IF Head(frames).opcode = 10 THEN BeforeClose(Tail(frames))
    ELSE <<Head(frames)>> \o BeforeClose(Tail(frames))

HasClose(frames) == \E i \in 1..Len(frames) : frames[i].opcode = 8

\* C24: a write of whole frames on an open bridge sends one message for
\* every text, binary and ping frame that comes before the first close
\* frame (a ping's message is its payload), nothing for a pong frame and
\* nothing for the close frame or the frames after it; a close frame calls
\* close() on the host connection once; and once close() was called no
\* write sends anything
C24_DispatchByOpcode ==
    /\ [][\A w \in WriteInputs :
            (/\ brCalls' = brCalls + 1
             /\ req.ws = "open"
             /\ br'.written = br.written \o StreamBytes(w.frames))
            => LET new == SubSeq(br'.sent, Len(br.sent) + 1, Len(br'.sent))
                   expected == BeforeClose(w.frames)
               IN  /\ SubSeq(br'.sent, 1, Len(br.sent)) = br.sent
                   /\ Len(new) = Len(expected)
                   /\ \A i \in 1..Len(expected) :
                        expected[i].opcode = 9
                            => new[i] = Message("binary", expected[i].payload)
                   /\ IF HasClose(w.frames)
                      THEN /\ br'.hostCloses = br.hostCloses + 1
                           /\ req'.ws = "closing"
                      ELSE /\ br'.hostCloses = br.hostCloses
                           /\ req'.ws = "open"]_vars
    /\ [][br.hostCloses > 0 => br'.sent = br.sent]_vars

\* a pong and a ping in one write, then a close and a text frame in one
\* write: the ping's payload is the only message sent
C24_Witness ==
    /\ Len(br.frames) = 4
    /\ br.frames[1].opcode = 10
    /\ br.frames[3].opcode = 8
    /\ br.sent = <<Message("binary", <<7>>)>>
    /\ br.hostCloses = 1
    /\ req.ws = "closing"

\* what a frame pushed into the mock socket is, read from its bytes
Delivered(bytes) ==
    LET parsed == ParseWsFrame(bytes)
    IN  [fin |-> bytes[1] >= 128,
         masked |-> bytes[2] >= 128,
         opcode |-> bytes[1] % 16,
         whole |-> parsed.ok /\ parsed.totalLength = Len(bytes),
         payload |-> IF parsed.ok THEN parsed.payload ELSE <<>>]

RECURSIVE DataFramesOf(_)
\* the text and binary frames among what the holder of the socket was given
DataFramesOf(observed) ==
    IF observed = <<>> THEN <<>>
    ELSE IF Head(observed).t = "frame" /\ Head(observed).bytes[1] % 16 \in {1, 2}
    THEN <<Delivered(Head(observed).bytes)>> \o DataFramesOf(Tail(observed))
    ELSE DataFramesOf(Tail(observed))

\* C25: the text and binary frames pushed into the mock socket are, in
\* order, one frame for each message that arrived on the host connection:
\* unmasked, FIN set, opcode text for a string and binary for bytes, a whole
\* frame whose payload is the message's bytes (for a string its UTF-8
\* encoding, which decodes to the string)
C25_OneFramePerMessage ==
    LET frames == DataFramesOf(br.observed)
    IN  /\ Len(frames) = Len(br.received)
        /\ \A i \in 1..Len(frames) :
             LET msg == br.received[i]
             IN  /\ frames[i].fin
                 /\ ~frames[i].masked
                 /\ frames[i].whole
                 /\ frames[i].opcode = (IF msg.kind = "text" THEN 1 ELSE 2)
                 /\ IF msg.kind = "text"
                    THEN /\ frames[i].payload = Utf8Encode(msg.data)
                         /\ DecodeFrom(frames[i].payload) = msg.data
                    ELSE frames[i].payload = msg.data

\* a string and then bytes arrived
C25_Witness ==
    /\ br.received = <<Message("text", <<233, 8364>>), Message("binary", <<0, 255>>)>>
    /\ Len(br.observed) = 2

CloseFrameAt(i) ==
    br.observed[i].t = "frame" /\ br.observed[i].bytes[1] % 16 = 8

C27_FailureIsSocketError ==
    [][(\/ req.errTimer /\ ~req'.errTimer
        \/ req.ws # "errored" /\ req'.ws = "errored")
       => /\ br'.observed = Append(br.observed, Ev("error"))
          /\ br'.destroyed]_vars

\* C28: destroy() on the mock socket calls close() on a host connection
\* that is open or connecting, which is then closing, and calls nothing on
\* one that is closing or closed
C28_DestroyClosesOpenHost ==
    [][\A hasError \in BOOLEAN :
         (BridgeDestroy(hasError) /\ brCalls' = brCalls + 1)
         => IF req.ws \in {"open", "connecting"}
            THEN br'.hostCloses = br.hostCloses + 1 /\ req'.ws = "closing"
            ELSE br'.hostCloses = br.hostCloses /\ req'.ws = req.ws]_vars

\* the socket of an open bridge was destroyed twice
C28_Witness ==
    /\ brCalls = 2
    /\ br.destroyed
    /\ br.written = <<>>
    /\ br.received = <<>>
    /\ br.hostCloses = 1
    /\ req.ws = "closing"

(***************************************************************************)
(* C31: when _parseWsFrame returns a frame for bytes that declare a 64-bit *)
(* length, the upper 32 bits of that length are zero, the top bit of its   *)
(* lower word is clear, and the payload returned has the declared length.  *)
(***************************************************************************)
C31_OversizedLengthRejected ==
    (codec.raw /\ codec.parsed.ok)
       => /\ codec.high = ZeroKey
          /\ codec.low[1] < 128
          /\ Len(codec.parsed.payload)
               = Int32Of(codec.low[1], codec.low[2], codec.low[3], codec.low[4])

\* "258EAFA5-E914-47DA-95CA-C5AB0DC85B11"
ProtocolGuid ==
    <<50, 53, 56, 69, 65, 70, 65, 53, 45, 69, 57, 49, 52, 45, 52, 55, 68, 65, 45, 57,
      53, 67, 65, 45, 67, 53, 65, 66, 48, 68, 67, 56, 53, 66, 49, 49>>

\* "s3pPLMBiTxaQ9kYGzzhZRbK+xOo="
SampleAccept ==
    <<115, 51, 112, 80, 76, 77, 66, 105, 84, 120, 97, 81, 57, 107, 89, 71, 122, 122, 104,
      90, 82, 98, 75, 43, 120, 79, 111, 61>>

C33_NoFrameAfterDestroy ==
    [][br.destroyed
         => \A i \in (Len(br.observed) + 1)..Len(br'.observed) :
              br'.observed[i].t # "frame"]_vars

\* C34: the mock socket emits at most one close notification
C34_OneCloseNotification == Count(br.observed, Ev("close")) <= 1

\* C35: a step sends on the host connection only when the connection is
\* open at that step, and no more messages than it parses frames; a write
\* made while the connection is not open takes its frames out of the
\* assembly buffer and sends none of them, so that nothing is left to be
\* forwarded later
C35_ForwardOnlyWhileOpen ==
    [][/\ req.ws # "open" => br'.sent = br.sent
       /\ Len(br'.sent) - Len(br.sent) <= Len(br'.frames) - Len(br.frames)
       /\ (br'.written # br.written /\ req.ws # "open")
            => /\ br'.writeBuffer = <<>>
               /\ Len(br'.frames) > Len(br.frames)
               /\ br'.written = br'.removed]_vars

\* a close frame was written and, in a later write, a text frame: the text
\* frame was parsed while the connection was closing and not sent
C35_Witness ==
    /\ brCalls = 2
    /\ br.received = <<>>
    /\ ~br.destroyed
    /\ Len(br.frames) = 2
    /\ br.frames[1].opcode = 8
    /\ br.frames[2].opcode = 1
    /\ br.writeBuffer = <<>>
    /\ br.sent = <<>>

\* C36: a ServerResponse emits finish at most once, and never in the step
\* of an end() call
C36_FinishAtMostOnce ==
    /\ [](resHist.finish <= 1)
    /\ [][resHist'.finish > resHist.finish => resHist'.ends = resHist.ends]_vars

\* C37: once the microtask queue is empty, no server's connection set holds
\* a destroyed socket
C37_NoDestroyedConnectionAtRest ==
    micro = <<>>
      => \A s \in Servers : \A k \in Elems(connections[s]) : ~sock[k].destroyed

\* the calls of close() and terminate() recorded in a log
ShimEnded(log) == \E i \in 1..Len(log) : log[i] \in {"close()", "terminate()"}

\* C38: the readyState of the ws-shim WebSocket never decreases, and no open
\* notification is emitted once close() or terminate() was called
C38_ReadyStateMovesForward ==
    [][/\ client'.readyState >= client.readyState
       /\ ShimEnded(client.log) => Count(client'.log, "open") = Count(client.log, "open")]_vars

\* C39: the ws-shim WebSocket emits at most one close notification
C39_ShimClosesOnce == Count(client.log, "close") <= 1

\* whether the graceful-exit timer of worker id is pending
ExitPending(id) == \E i \in 1..Len(cluster.timers) : cluster.timers[i] = Timer("exit", id)

\* the position of the first entry e of a log, 0 when there is none
FirstAt(log, e) ==
    IF \E i \in 1..Len(log) : log[i] = e
    THEN CHOOSE i \in 1..Len(log) : log[i] = e /\ \A j \in 1..(i - 1) : log[j] # e
    ELSE 0

\* C40: a worker emits exit at most once, and exactly once when disconnect()
\* or kill() was called and no graceful-exit timer is pending; a worker that
\* emitted exit is dead, not connected and not in the workers table, and no
\* send() after the exit returns true
C40_ExitExactlyOnce ==
    \A id \in WorkerIds :
       LET wr == cluster.w[id] IN
       /\ Count(wr.log, "exit") <= 1
       /\ wr.dead <=> Count(wr.log, "exit") = 1
       /\ (FirstAt(wr.log, "disconnect()") + FirstAt(wr.log, "kill()") > 0)
            /\ ~ExitPending(id) => Count(wr.log, "exit") = 1
       /\ wr.dead => /\ ~wr.connected
                     /\ ~wr.processConnected
                     /\ id \notin cluster.workers
                     /\ ~SendReturns(wr)
                     /\ \A j \in (FirstAt(wr.log, "exit") + 1)..Len(wr.log) :
                           wr.log[j] # "send()=true"

\* a worker on which disconnect() and then kill() were called before the
\* graceful-exit timer ran; the timer has run since, and a send() was made
C40_Witness ==
    \E id \in WorkerIds :
       LET log == cluster.w[id].log IN
       /\ FirstAt(log, "disconnect()") > 0
       /\ FirstAt(log, "kill()") > FirstAt(log, "disconnect()")
       /\ FirstAt(log, "exit") = FirstAt(log, "kill()") + 1
       /\ ~ExitPending(id)
       /\ log[Len(log)] = "send()=false"

====
